---- MODULE Spec2Model ----
(***************************************************************************)
(* Model of the theorem-library job orchestration: the verification        *)
(* service's API handlers (verify, get_status), the Celery workers         *)
(* process_verification_task / process_latex_task with their ephemeral     *)
(* containers, the Redis status store, the manifest validator              *)
(* parse_dependencies_from_repo, the index job                             *)
(* clone_and_index_repository writing the Neo4j project graph, the         *)
(* dependency service's handlers (internal_add_project, the two status     *)
(* callbacks, add_dependency) and the dependency-task process.             *)
(***************************************************************************)
EXTENDS Integers, Sequences, FiniteSets, Bags, TLC

\* ------------------------------------------------------------------------
\* Bounds of the model
\* ------------------------------------------------------------------------
MaxJobs == 1
MaxRequire == 2
MaxDeclared == 2
MaxIndexJobs == 2
MaxGraphJobs == 1
MaxRequests == 2
MaxTasks == 2
MaxScenarioJobs == 3
MaxOrderJobs == 2
MaxStrLen == 2
MaxKeyJobs == 2
MaxPdfLen == 1

\* ------------------------------------------------------------------------
\* Program constants
\* ------------------------------------------------------------------------
TTL == 86400
NoTTL == -1
DefaultExitCode == -1

Jobs == 1..MaxJobs
NoTask == 0

Kinds == {"verification", "latex"}
TaskStatus == {"queued", "running", "success", "fail"}
Terminal == {"success", "fail"}

\* StatusCode values a finished container reports through container.wait()
StatusCodes == {0, 1}

\* The one subject (repo_url, commit_hash) all jobs of the model are about
RepoUrl == "repo"
CommitHash == "c1"

\* f"verification:{self.repo_url}:{self.commit_hash}" and
\* f"latex:{self.repo_url}:{self.commit_hash}": the string, as the sequence of
\* its characters (the prefix counts as one)
FormatKey(prefix, repo_url, commit_hash) ==
  <<prefix, ":">> \o repo_url \o <<":">> \o commit_hash

redis_key(kind) == FormatKey(kind, <<RepoUrl>>, <<CommitHash>>)
RedisKeys == {redis_key(k) : k \in Kinds}
VerificationKey == redis_key("verification")

NoEntry == [raw |-> "absent", status |-> "none", task_id |-> NoTask, ttl |-> NoTTL]

\* RedisTaskData(status, task_id).model_dump_json()
model_dump_json(status, task_id) == [raw |-> "json", status |-> status, task_id |-> task_id]

\* RedisTaskData.model_validate_json(value) succeeds
Decodable(e) == e.raw = "json" /\ e.status \in TaskStatus /\ e.task_id \in Jobs

\* Stored content no RedisTaskData decodes from
CorruptValues == { [raw |-> "garbage", status |-> "none", task_id |-> NoTask],
                   [raw |-> "json", status |-> "Queued", task_id |-> NoTask] }

VARIABLES
  nextId,      \* next task id the broker hands out
  kind,        \* kind[j]: queue the task j was published to
  queue,       \* tasks published and not yet picked up by a worker
  hpc,         \* hpc[j]: position of the verify() request that created task j
  wpc,         \* wpc[j]: position of the worker executing task j
  store,       \* Redis: key -> entry (value and expiry)
  container,   \* container[j]: the container named <kind>-task-<j>
  cvar,        \* cvar[j]: the worker's local `container` is not None
  exit_code,   \* exit_code[j]: the worker's local exit_code
  waited,      \* waited[j]: outcome of containers.run / container.wait
  reported,    \* reported[j]: StatusCode reported by container.wait
  written,     \* written[j]: terminal status the worker stored
  cbCount,     \* cbCount[j]: callback requests sent by the worker
  cbFlag,      \* cbFlag[j]: has_valid_status of the callback request
  cbResult,    \* cbResult[j]: outcome of the callback request
  poll         \* last response of get_status for the verification subject

workerVars == <<nextId, kind, queue, hpc, wpc, store, container, cvar, exit_code,
                waited, reported, written, cbCount, cbFlag, cbResult, poll>>

\* The manifest validator, run on one repository checkout
VARIABLES
  v_requires,  \* the [[require]] tables of lakefile.toml, in file order
  v_declared,  \* the entries of math-dependencies.json, in file order
  v_result     \* what parse_dependencies_from_repo produced, once it ran

validatorVars == <<v_requires, v_declared, v_result>>

\* The index jobs and the project graph
VARIABLES
  ipc,         \* ipc[j]: position of index job j (clone_and_index_repository)
  iproject,    \* iproject[j]: the (repo_url, commit) job j indexes
  ideps,       \* ideps[j]: validated dependencies job j has still to merge
  ihasErrors,  \* ihasErrors[j]: the validator recorded an error for job j
  ipassed,     \* ipassed[j]: declared entries of job j that passed validation
  iwrote,      \* iwrote[j]: job j ran a statement that writes to the graph
  nodes,       \* the Project nodes of the graph
  edges,       \* the DEPENDS_ON relationships: a bag of pairs of node ids
  nextNode     \* id the graph gives its next node

indexVars == <<ipc, iproject, ideps, ihasErrors, ipassed, iwrote, nodes, edges, nextNode>>

jobVars == <<ipc, iproject, ideps, ihasErrors, ipassed, iwrote>>

\* The request handlers of the dependency service
VARIABLES
  reqCount,    \* requests the dependency service has answered
  resp,        \* the last response: the endpoint and its status code
  hreq         \* the internal_add_project request whose transaction is open

handlerVars == <<reqCount, resp, hreq>>

\* The dependency-task processes (main of dependency-task)
VARIABLES
  tpc,         \* tpc[t]: position of task t
  troot,       \* troot[t]: the (repo_url, commit) task t indexes
  tdeps,       \* tdeps[t]: the validated dependencies of task t
  tobj,        \* tobj[t]: the Project object task t holds for its root
  tids         \* tids[t]: ids of the dependency nodes task t looked up

taskVars == <<tpc, troot, tdeps, tobj, tids>>

\* The dependency listings
VARIABLES
  listing      \* the last response of a dependency listing request

queryVars == <<listing>>

\* The creation requests (add_project of main_fastapi)
VARIABLES
  spc,         \* spc[j]: position of the creation request whose index job is j
  sverify,     \* sverify[j]: outcome of its request to the verification service
  slatex,      \* slatex[j]: outcome of its request to the latex service
  sresp        \* sresp[j]: its response

submitVars == <<spc, sverify, slatex, sresp>>

\* Submissions and status requests for two subjects
VARIABLES
  ksubject,    \* ksubject[i]: the (repo_url, commit_hash) of subject i
  kjobs,       \* kjobs[id]: the subject the task id was submitted for
  kstore,      \* Redis: the entries written, each with its key
  kpoll        \* kpoll[i]: the last status response for subject i

keyVars == <<ksubject, kjobs, kstore, kpoll>>

\* The PDF store and the task containers
VARIABLES
  pfiles,      \* pfiles[path]: content of the file of the pdf-service, or NoFile
  presp,       \* the last request to the pdf-service with its response
  artifact,    \* what the repository at the requested commit is like
  lupload      \* status codes of the uploads of the latex task containers so far

blobVars == <<pfiles, presp, artifact, lupload>>

vars == <<workerVars, validatorVars, indexVars, handlerVars, taskVars, queryVars,
          submitVars, keyVars, blobVars>>

NotFound == [status |-> "not_found", task_id |-> NoTask, decode_error |-> FALSE]

WorkerInit ==
  /\ nextId = 1
  /\ kind = [j \in Jobs |-> "none"]
  /\ queue = {}
  /\ hpc = [j \in Jobs |-> "idle"]
  /\ wpc = [j \in Jobs |-> "idle"]
  /\ store = [k \in RedisKeys |-> NoEntry]
  /\ container = [j \in Jobs |-> "none"]
  /\ cvar = [j \in Jobs |-> FALSE]
  /\ exit_code = [j \in Jobs |-> DefaultExitCode]
  /\ waited = [j \in Jobs |-> "no"]
  /\ reported = [j \in Jobs |-> DefaultExitCode]
  /\ written = [j \in Jobs |-> "none"]
  /\ cbCount = [j \in Jobs |-> 0]
  /\ cbFlag = [j \in Jobs |-> "none"]
  /\ cbResult = [j \in Jobs |-> "none"]
  /\ poll = NotFound

\* ------------------------------------------------------------------------
\* Redis commands
\* ------------------------------------------------------------------------
\* SET key value: replaces the value and discards any expiry of the key
RedisSet(s, key, value) ==
  [s EXCEPT ![key] = [raw |-> value.raw, status |-> value.status,
                      task_id |-> value.task_id, ttl |-> NoTTL]]

\* EXPIRE key seconds: sets the expiry of an existing key, no-op otherwise
RedisExpire(s, key, seconds) ==
  IF s[key].raw = "absent" THEN s ELSE [s EXCEPT ![key].ttl = seconds]

\* GET key: the stored value or None
RedisGet(s, key) == s[key]

\* ------------------------------------------------------------------------
\* verification-service: POST /run
\* ------------------------------------------------------------------------
\* process_verification_task.delay(task_data): the task is published and gets
\* its id; from here on a worker may pick it up
VerifyDelay ==
  /\ nextId \in DOMAIN kind
  /\ hpc[nextId] = "idle"
  /\ kind' = [kind EXCEPT ![nextId] = "verification"]
  /\ queue' = queue \cup {nextId}
  /\ hpc' = [hpc EXCEPT ![nextId] = "delayed"]
  /\ nextId' = nextId + 1
  /\ UNCHANGED <<wpc, store, container, cvar, exit_code, waited, reported, written,
                 cbCount, cbFlag, cbResult, poll>>

\* process_verification_task.delay(task_data) raises (the broker cannot be
\* reached): the call is outside any try block, the request is answered 500
\* and nothing is written or published
VerifyDelayRaises ==
  /\ nextId \in DOMAIN kind
  /\ hpc[nextId] = "idle"
  /\ hpc' = [hpc EXCEPT ![nextId] = "raised500"]
  /\ nextId' = nextId + 1
  /\ UNCHANGED <<kind, queue, wpc, store, container, cvar, exit_code, waited, reported,
                 written, cbCount, cbFlag, cbResult, poll>>

\* process_verification_task.delay(task_data) returns the task although the
\* message does not reach the queue: the app is created with the broker URL
\* alone, so the channel does not wait for the broker's confirmation of a
\* publish
VerifyDelayLost ==
  /\ nextId \in DOMAIN kind
  /\ hpc[nextId] = "idle"
  /\ kind' = [kind EXCEPT ![nextId] = "verification"]
  /\ hpc' = [hpc EXCEPT ![nextId] = "delayed"]
  /\ nextId' = nextId + 1
  /\ UNCHANGED <<queue, wpc, store, container, cvar, exit_code, waited, reported, written,
                 cbCount, cbFlag, cbResult, poll>>

\* redis_client.set(redis_key, {"queued", task.id}); a Redis error is answered 500
VerifySet(j) ==
  /\ hpc[j] = "delayed"
  /\ \/ /\ store' = RedisSet(store, VerificationKey, model_dump_json("queued", j))
        /\ hpc' = [hpc EXCEPT ![j] = "set"]
     \/ /\ hpc' = [hpc EXCEPT ![j] = "error500"]
        /\ UNCHANGED store
  /\ UNCHANGED <<nextId, kind, queue, wpc, container, cvar, exit_code, waited, reported,
                 written, cbCount, cbFlag, cbResult, poll>>

\* redis_client.expire(redis_key, 86400), then the 202 response
VerifyExpire(j) ==
  /\ hpc[j] = "set"
  /\ \/ /\ store' = RedisExpire(store, VerificationKey, TTL)
        /\ hpc' = [hpc EXCEPT ![j] = "accepted"]
     \/ /\ hpc' = [hpc EXCEPT ![j] = "error500"]
        /\ UNCHANGED store
  /\ UNCHANGED <<nextId, kind, queue, wpc, container, cvar, exit_code, waited, reported,
                 written, cbCount, cbFlag, cbResult, poll>>

\* ------------------------------------------------------------------------
\* verification-service: POST /status
\* ------------------------------------------------------------------------
\* What get_status answers for the stored value: the decoded status and task
\* id, or not_found when the key is absent or its content does not decode
\* (decode_error: the handler took its `except` branch and logged the value)
StatusResponse(e) ==
  IF e.raw = "absent" THEN NotFound
  ELSE IF Decodable(e)
       THEN [status |-> e.status, task_id |-> e.task_id, decode_error |-> FALSE]
       ELSE [status |-> "not_found", task_id |-> NoTask, decode_error |-> TRUE]

\* What get_status leaves in the store: the handler only reads
StoreAfterGetStatus(s, key) == s

GetStatus ==
  /\ poll' = StatusResponse(RedisGet(store, VerificationKey))
  /\ store' = StoreAfterGetStatus(store, VerificationKey)
  /\ UNCHANGED <<nextId, kind, queue, hpc, wpc, container, cvar, exit_code, waited,
                 reported, written, cbCount, cbFlag, cbResult>>

\* ------------------------------------------------------------------------
\* Redis expiry: an entry that carries an expiry disappears when it lapses
\* ------------------------------------------------------------------------
ExpireTTL(key) ==
  /\ store[key].raw # "absent"
  /\ store[key].ttl # NoTTL
  /\ store' = [store EXCEPT ![key] = NoEntry]
  /\ UNCHANGED <<nextId, kind, queue, hpc, wpc, container, cvar, exit_code, waited,
                 reported, written, cbCount, cbFlag, cbResult, poll>>

\* A task published to the "latex" queue (its publisher is outside the worker)
LatexDelay ==
  /\ nextId \in DOMAIN kind
  /\ kind' = [kind EXCEPT ![nextId] = "latex"]
  /\ queue' = queue \cup {nextId}
  /\ nextId' = nextId + 1
  /\ UNCHANGED <<hpc, wpc, store, container, cvar, exit_code, waited, reported, written,
                 cbCount, cbFlag, cbResult, poll>>

\* ------------------------------------------------------------------------
\* Workers: process_verification_task / process_latex_task
\* (the two differ in the key prefix, the container name and the callback URL)
\* ------------------------------------------------------------------------
Active == {"set_running", "expire_running", "spawn", "wait", "logs", "set_final",
           "expire_final", "callback", "remove"}

\* A worker takes the task off its queue; redis_key and task_id are computed
WorkerStart(j) ==
  /\ j \in queue
  /\ wpc[j] = "idle"
  /\ queue' = queue \ {j}
  /\ wpc' = [wpc EXCEPT ![j] = "set_running"]
  /\ UNCHANGED <<nextId, kind, hpc, store, container, cvar, exit_code, waited, reported,
                 written, cbCount, cbFlag, cbResult, poll>>

\* redis_client.set(redis_key, {"running", task_id}), outside any try block
WorkerSetRunning(j) ==
  /\ wpc[j] = "set_running"
  /\ \/ /\ store' = RedisSet(store, redis_key(kind[j]), model_dump_json("running", j))
        /\ wpc' = [wpc EXCEPT ![j] = "expire_running"]
     \/ /\ wpc' = [wpc EXCEPT ![j] = "raised"]
        /\ UNCHANGED store
  /\ UNCHANGED <<nextId, kind, queue, hpc, container, cvar, exit_code, waited, reported,
                 written, cbCount, cbFlag, cbResult, poll>>

\* redis_client.expire(redis_key, 86400), outside any try block
WorkerExpireRunning(j) ==
  /\ wpc[j] = "expire_running"
  /\ \/ /\ store' = RedisExpire(store, redis_key(kind[j]), TTL)
        /\ wpc' = [wpc EXCEPT ![j] = "spawn"]
     \/ /\ wpc' = [wpc EXCEPT ![j] = "raised"]
        /\ UNCHANGED store
  /\ UNCHANGED <<nextId, kind, queue, hpc, container, cvar, exit_code, waited, reported,
                 written, cbCount, cbFlag, cbResult, poll>>

\* name=f"verification-task-{task_id}" / name=f"latex-task-{task_id}"
ContainerName(k, task_id) == <<k, "-task-", task_id>>

\* container = client.containers.run(..., name=f"<kind>-task-{task_id}", detach=True)
\* or the except branch: exit_code = -1, container stays None; Docker refuses
\* a name that an existing container carries
WorkerSpawn(j) ==
  /\ wpc[j] = "spawn"
  /\ \/ /\ container[j] # "exists"
        /\ container' = [container EXCEPT ![j] = "exists"]
        /\ cvar' = [cvar EXCEPT ![j] = TRUE]
        /\ wpc' = [wpc EXCEPT ![j] = "wait"]
        /\ UNCHANGED <<exit_code, waited>>
     \/ /\ exit_code' = [exit_code EXCEPT ![j] = -1]
        /\ waited' = [waited EXCEPT ![j] = "spawn_failed"]
        /\ wpc' = [wpc EXCEPT ![j] = "set_final"]
        /\ UNCHANGED <<container, cvar>>
  /\ UNCHANGED <<nextId, kind, queue, hpc, store, reported, written, cbCount, cbFlag,
                 cbResult, poll>>

\* result = container.wait(); exit_code = result.get("StatusCode", -1);
\* or the except branch: exit_code = -1
WorkerWait(j) ==
  /\ wpc[j] = "wait"
  /\ \/ \E c \in StatusCodes :
          /\ exit_code' = [exit_code EXCEPT ![j] = c]
          /\ reported' = [reported EXCEPT ![j] = c]
          /\ waited' = [waited EXCEPT ![j] = "ok"]
          /\ wpc' = [wpc EXCEPT ![j] = IF c # 0 THEN "logs" ELSE "set_final"]
     \/ /\ exit_code' = [exit_code EXCEPT ![j] = DefaultExitCode]
        /\ waited' = [waited EXCEPT ![j] = "no_status_code"]
        /\ wpc' = [wpc EXCEPT ![j] = "logs"]
        /\ UNCHANGED reported
     \/ /\ exit_code' = [exit_code EXCEPT ![j] = -1]
        /\ waited' = [waited EXCEPT ![j] = "exception"]
        /\ wpc' = [wpc EXCEPT ![j] = "set_final"]
        /\ UNCHANGED reported
  /\ UNCHANGED <<nextId, kind, queue, hpc, store, container, cvar, written, cbCount,
                 cbFlag, cbResult, poll>>

\* if exit_code != 0: logs = container.logs().decode("utf-8");
\* or the except branch: exit_code = -1
WorkerLogs(j) ==
  /\ wpc[j] = "logs"
  /\ \/ UNCHANGED <<exit_code, waited>>
     \/ /\ exit_code' = [exit_code EXCEPT ![j] = -1]
        /\ waited' = [waited EXCEPT ![j] = "logs_exception"]
  /\ wpc' = [wpc EXCEPT ![j] = "set_final"]
  /\ UNCHANGED <<nextId, kind, queue, hpc, store, container, cvar, reported, written,
                 cbCount, cbFlag, cbResult, poll>>

\* Variant of FinalStatus: any non-negative exit code counts as success
FinalStatus_NonNegative(code) == IF code >= 0 THEN "success" ELSE "fail"

\* final_status = "success" if exit_code == 0 else "fail"
FinalStatus(code) == IF code = 0 THEN "success" ELSE "fail"

\* has_valid_status=(exit_code == 0)
HasValidStatus(code) == code = 0

\* Variant of WorkerSetFinal: container.remove() sits inside the try block, so
\* a Redis error ends the task without reaching it
WorkerSetFinal_RemoveInsideTry(j) ==
  /\ wpc[j] = "set_final"
  /\ \/ /\ store' = RedisSet(store, redis_key(kind[j]),
                             model_dump_json(FinalStatus(exit_code[j]), j))
        /\ written' = [written EXCEPT ![j] = FinalStatus(exit_code[j])]
        /\ wpc' = [wpc EXCEPT ![j] = "expire_final"]
        /\ UNCHANGED <<cvar, exit_code, waited, reported>>
     \/ /\ wpc' = [wpc EXCEPT ![j] = "done"]
        /\ cvar' = [cvar EXCEPT ![j] = FALSE]
        /\ exit_code' = [exit_code EXCEPT ![j] = DefaultExitCode]
        /\ waited' = [waited EXCEPT ![j] = "no"]
        /\ reported' = [reported EXCEPT ![j] = DefaultExitCode]
        /\ UNCHANGED <<store, written>>
  /\ UNCHANGED <<nextId, kind, queue, hpc, container, cbCount, cbFlag, cbResult, poll>>

\* finally: redis_client.set(redis_key, {final_status, task_id}); a Redis error
\* is caught by the outer `except Exception` and the container is removed next
WorkerSetFinal(j) ==
  /\ wpc[j] = "set_final"
  /\ \/ /\ store' = RedisSet(store, redis_key(kind[j]),
                             model_dump_json(FinalStatus(exit_code[j]), j))
        /\ written' = [written EXCEPT ![j] = FinalStatus(exit_code[j])]
        /\ wpc' = [wpc EXCEPT ![j] = "expire_final"]
     \/ /\ wpc' = [wpc EXCEPT ![j] = "remove"]
        /\ UNCHANGED <<store, written>>
  /\ UNCHANGED <<nextId, kind, queue, hpc, container, cvar, exit_code, waited, reported,
                 cbCount, cbFlag, cbResult, poll>>

\* redis_client.expire(redis_key, 86400); a Redis error skips the callback
WorkerExpireFinal(j) ==
  /\ wpc[j] = "expire_final"
  /\ \/ /\ store' = RedisExpire(store, redis_key(kind[j]), TTL)
        /\ wpc' = [wpc EXCEPT ![j] = "callback"]
     \/ /\ wpc' = [wpc EXCEPT ![j] = "remove"]
        /\ UNCHANGED store
  /\ UNCHANGED <<nextId, kind, queue, hpc, container, cvar, exit_code, waited, reported,
                 written, cbCount, cbFlag, cbResult, poll>>

\* Outcomes of httpx.post(.../internal/verification_status | paper_status):
\* a 2xx response, a non-2xx response (404 when the project is not in the
\* graph), or a transport exception
CallbackOutcomes == {"ok", "not_found_404", "exception"}

\* Variant of WorkerCallback: a failed callback is sent again
WorkerCallback_Retry(j) ==
  /\ wpc[j] = "callback"
  /\ \E r \in CallbackOutcomes :
       /\ cbResult' = [cbResult EXCEPT ![j] = r]
       /\ wpc' = [wpc EXCEPT ![j] = IF r = "ok" THEN "remove" ELSE "callback"]
  /\ cbCount' = [cbCount EXCEPT ![j] = IF @ < 2 THEN @ + 1 ELSE @]
  /\ cbFlag' = [cbFlag EXCEPT ![j] = IF HasValidStatus(exit_code[j]) THEN "true" ELSE "false"]
  /\ UNCHANGED <<nextId, kind, queue, hpc, store, container, cvar, exit_code, waited,
                 reported, written, poll>>

\* The one httpx.post of the worker; every outcome is logged and the worker
\* goes on to remove the container
WorkerCallback(j) ==
  /\ wpc[j] = "callback"
  /\ \E r \in CallbackOutcomes : cbResult' = [cbResult EXCEPT ![j] = r]
  /\ cbCount' = [cbCount EXCEPT ![j] = @ + 1]
  /\ cbFlag' = [cbFlag EXCEPT ![j] = IF HasValidStatus(exit_code[j]) THEN "true" ELSE "false"]
  /\ wpc' = [wpc EXCEPT ![j] = "remove"]
  /\ UNCHANGED <<nextId, kind, queue, hpc, store, container, cvar, exit_code, waited,
                 reported, written, poll>>

\* if container: container.remove(); then the task returns and its locals
\* (container, exit_code, the callback request and response) are gone
WorkerRemove(j) ==
  /\ wpc[j] = "remove"
  /\ container' = IF cvar[j] THEN [container EXCEPT ![j] = "removed"] ELSE container
  /\ wpc' = [wpc EXCEPT ![j] = "done"]
  /\ cvar' = [cvar EXCEPT ![j] = FALSE]
  /\ exit_code' = [exit_code EXCEPT ![j] = DefaultExitCode]
  /\ waited' = [waited EXCEPT ![j] = "no"]
  /\ reported' = [reported EXCEPT ![j] = DefaultExitCode]
  /\ cbCount' = [cbCount EXCEPT ![j] = 0]
  /\ cbFlag' = [cbFlag EXCEPT ![j] = "none"]
  /\ cbResult' = [cbResult EXCEPT ![j] = "none"]
  /\ UNCHANGED <<nextId, kind, queue, hpc, store, written, poll>>

\* The worker process dies in the middle of the task; its locals are gone,
\* the container it spawned stays
WorkerCrash(j) ==
  /\ wpc[j] \in Active
  /\ wpc' = [wpc EXCEPT ![j] = "crashed"]
  /\ cvar' = [cvar EXCEPT ![j] = FALSE]
  /\ exit_code' = [exit_code EXCEPT ![j] = DefaultExitCode]
  /\ waited' = [waited EXCEPT ![j] = "no"]
  /\ reported' = [reported EXCEPT ![j] = DefaultExitCode]
  /\ cbCount' = [cbCount EXCEPT ![j] = 0]
  /\ cbFlag' = [cbFlag EXCEPT ![j] = "none"]
  /\ cbResult' = [cbResult EXCEPT ![j] = "none"]
  /\ UNCHANGED <<nextId, kind, queue, hpc, store, container, written, poll>>

\* The broker did not receive the acknowledgement of task j before the worker
\* died and delivers the message again, with the same task id
Redeliver(j) ==
  /\ wpc[j] = "crashed"
  /\ queue' = queue \cup {j}
  /\ wpc' = [wpc EXCEPT ![j] = "idle"]
  /\ UNCHANGED <<nextId, kind, hpc, store, container, cvar, exit_code, waited, reported,
                 written, cbCount, cbFlag, cbResult, poll>>

\* Content written to the key by something other than this code
CorruptEntry ==
  /\ \E v \in CorruptValues : store' = RedisSet(store, VerificationKey, v)
  /\ UNCHANGED <<nextId, kind, queue, hpc, wpc, container, cvar, exit_code, waited,
                 reported, written, cbCount, cbFlag, cbResult, poll>>

\* ------------------------------------------------------------------------
\* Manifest validator: parse_dependencies_from_repo
\* ------------------------------------------------------------------------
\* A field of a TOML table / JSON object: a string, or None when the key is
\* missing (dict.get)
None == "<None>"
Urls == {"A", "B"}
Revs == {"r1", "r2"}
GitField == Urls \cup {None}
RevField == Revs \cup {None}

RequireEntries == [git : GitField, rev : RevField]
DeclaredEntries == [git : GitField, commit : RevField]

SeqsUpTo(S, n) == UNION {[1..k -> S] : k \in 0..n}

\* Python truthiness of a field: None (and "") are falsy
Truthy(x) == x # None /\ x # ""

\* lakefile_deps: for req in lakefile_requires:
\*     if dep_git and dep_rev: lakefile_deps[dep_git] = dep_rev
\* (a later table for the same git overwrites an earlier one); None = no key
RECURSIVE lakefile_deps(_)
lakefile_deps(requires) ==
  IF requires = <<>> THEN [u \in Urls |-> None]
  ELSE LET n == Len(requires)
           req == requires[n]
           before == lakefile_deps(SubSeq(requires, 1, n - 1))
       IN IF Truthy(req.git) /\ Truthy(req.rev)
          THEN [before EXCEPT ![req.git] = req.rev]
          ELSE before

\* Variant of the membership test: any pinned URL makes the test succeed
InLakefile_AnyEntry(deps, git) == git \in Urls /\ \E u \in Urls : deps[u] # None

\* dep_git in lakefile_deps
InLakefile(deps, git) == git \in Urls /\ deps[git] # None

\* The chain of checks on one declared entry, each ending the iteration for
\* that entry with `continue`: the error it appends, or "ok"
ValidateEntry(dep, deps) ==
  IF ~Truthy(dep.git) THEN "missing_git"
  ELSE IF ~Truthy(dep.commit) THEN "missing_commit"
  ELSE IF ~InLakefile(deps, dep.git) THEN "not_in_lakefile"
  ELSE IF deps[dep.git] # dep.commit THEN "commit_mismatch"
  ELSE "ok"

ValidationError(dep, why) == [error |-> why, git |-> dep.git, commit |-> dep.commit]

\* Variant of the loop: the first failing entry ends the loop
RECURSIVE ValidateAll_FailFast(_, _)
ValidateAll_FailFast(dependency_list, deps) ==
  IF dependency_list = <<>> THEN [validation_errors |-> <<>>, dependencies |-> <<>>]
  ELSE LET dep == Head(dependency_list)
           why == ValidateEntry(dep, deps)
           rest == ValidateAll_FailFast(Tail(dependency_list), deps)
       IN IF why = "ok"
          THEN [validation_errors |-> rest.validation_errors,
                dependencies |-> <<[git |-> dep.git, commit |-> dep.commit]>>
                                 \o rest.dependencies]
          ELSE [validation_errors |-> <<ValidationError(dep, why)>>,
                dependencies |-> <<>>]

\* Variant of the loop: a passing entry equal to a later one is appended once
RECURSIVE ValidateAll_Dedup(_, _)
ValidateAll_Dedup(dependency_list, deps) ==
  IF dependency_list = <<>> THEN [validation_errors |-> <<>>, dependencies |-> <<>>]
  ELSE LET dep == Head(dependency_list)
           why == ValidateEntry(dep, deps)
           rest == ValidateAll_Dedup(Tail(dependency_list), deps)
           out == [git |-> dep.git, commit |-> dep.commit]
       IN IF why = "ok"
          THEN [validation_errors |-> rest.validation_errors,
                dependencies |-> IF \E i \in 1..Len(rest.dependencies) :
                                      rest.dependencies[i] = out
                                 THEN rest.dependencies
                                 ELSE <<out>> \o rest.dependencies]
          ELSE [validation_errors |-> <<ValidationError(dep, why)>>
                                      \o rest.validation_errors,
                dependencies |-> rest.dependencies]

\* for dep in dependency_list: ... validation_errors.append / dependencies.append
RECURSIVE ValidateAll(_, _)
ValidateAll(dependency_list, deps) ==
  IF dependency_list = <<>> THEN [validation_errors |-> <<>>, dependencies |-> <<>>]
  ELSE LET dep == Head(dependency_list)
           why == ValidateEntry(dep, deps)
           rest == ValidateAll(Tail(dependency_list), deps)
       IN IF why = "ok"
          THEN [validation_errors |-> rest.validation_errors,
                dependencies |-> <<[git |-> dep.git, commit |-> dep.commit]>>
                                 \o rest.dependencies]
          ELSE [validation_errors |-> <<ValidationError(dep, why)>>
                                      \o rest.validation_errors,
                dependencies |-> rest.dependencies]

\* Variant of the ending: entries that failed are dropped and the rest returned
parse_dependencies_PartialOutput(requires, dependency_list) ==
  LET r == ValidateAll(dependency_list, lakefile_deps(requires))
  IN [raised |-> FALSE,
      validation_errors |-> r.validation_errors,
      dependencies |-> r.dependencies]

\* parse_dependencies_from_repo: raises ValueError carrying every error when
\* validation_errors is not empty, returns the dependencies otherwise
parse_dependencies_from_repo(requires, dependency_list) ==
  LET r == ValidateAll(dependency_list, lakefile_deps(requires))
  IN IF r.validation_errors # <<>>
     THEN [raised |-> TRUE,
           validation_errors |-> r.validation_errors,
           dependencies |-> <<>>]
     ELSE [raised |-> FALSE,
           validation_errors |-> <<>>,
           dependencies |-> r.dependencies]

NotRun == [ran |-> FALSE, raised |-> FALSE, validation_errors |-> <<>>,
           dependencies |-> <<>>]

Ran(r) == [ran |-> TRUE, raised |-> r.raised, validation_errors |-> r.validation_errors,
           dependencies |-> r.dependencies]

ValidatorIdle ==
  /\ v_requires = <<>>
  /\ v_declared = <<>>
  /\ v_result = NotRun

\* A checkout whose two manifest files hold any entries within the bounds
ValidatorInputs ==
  /\ v_requires \in SeqsUpTo(RequireEntries, MaxRequire)
  /\ v_declared \in SeqsUpTo(DeclaredEntries, MaxDeclared)
  /\ v_result = NotRun

RunValidator ==
  /\ v_result = NotRun
  /\ v_result' = Ran(parse_dependencies_from_repo(v_requires, v_declared))
  /\ UNCHANGED <<v_requires, v_declared>>
  /\ UNCHANGED <<workerVars, indexVars, handlerVars, taskVars, queryVars, submitVars, keyVars, blobVars>>

\* ------------------------------------------------------------------------
\* Index job: add_project's enqueue and clone_and_index_repository
\* ------------------------------------------------------------------------
IJobs == 1..MaxIndexJobs

ProjectKeys == [repo_url : Urls, commit : Revs]
NoProject == [repo_url |-> None, commit |-> None]

\* Checkouts the index jobs of the model may find: the two manifest files
Req(g, r) == [git |-> g, rev |-> r]
Dep(g, c) == [git |-> g, commit |-> c]
RepoManifests ==
  { [requires |-> <<>>, declared |-> <<>>],
    [requires |-> <<Req("A", "r1")>>, declared |-> <<Dep("A", "r1")>>],
    [requires |-> <<Req("A", "r1"), Req("B", "r2")>>,
     declared |-> <<Dep("A", "r1"), Dep("B", "r2")>>],
    [requires |-> <<Req("A", "r1")>>, declared |-> <<Dep("A", "r1"), Dep("B", "r2")>>],
    [requires |-> <<Req("A", "r2"), Req("B", "r2")>>,
     declared |-> <<Dep("A", "r1"), Dep("B", "r2")>>],
    [requires |-> <<Req("B", "r1")>>, declared |-> <<Dep(None, "r1"), Dep("B", "r1")>>] }

\* Nodes carrying the composite key
Matching(ns, repo_url, commit) == {n \in ns : n.repo_url = repo_url /\ n.commit = commit}

\* Variant of MergeProject: CREATE (p:Project {repo_url: ..., commit: ...})
MergeProject_AlwaysCreate(ns, id, repo_url, commit) ==
  ns \cup {[id |-> id, repo_url |-> repo_url, commit |-> commit,
            has_valid_dependencies |-> "null", has_valid_proof |-> "null",
            has_valid_paper |-> "null", last_indexed |-> FALSE]}

\* MERGE (p:Project {repo_url: ..., commit: ...}): matches the nodes with the
\* key, or creates one that has these two properties and no other
MergeProject(ns, id, repo_url, commit) ==
  IF Matching(ns, repo_url, commit) # {} THEN ns
  ELSE ns \cup {[id |-> id, repo_url |-> repo_url, commit |-> commit,
                 has_valid_dependencies |-> "null", has_valid_proof |-> "null",
                 has_valid_paper |-> "null", last_indexed |-> FALSE]}

\* SET p.last_indexed = datetime() on the nodes with the key
SetLastIndexed(ns, repo_url, commit) ==
  {IF n.repo_url = repo_url /\ n.commit = commit
   THEN [n EXCEPT !.last_indexed = TRUE] ELSE n : n \in ns}

NextId(ns, before, id) == IF ns = before THEN id ELSE id + 1

\* Variant of the relationship clause: CREATE (p)-[:DEPENDS_ON]->(d)
CreateEdges(es, pairs) == es (+) SetToBag(pairs)

\* MERGE (p)-[:DEPENDS_ON]->(d) for every matched pair (p, d): a relationship
\* is created where none exists
MergeEdges(es, pairs) == es (+) SetToBag({e \in pairs : ~BagIn(e, es)})

IndexIdle ==
  /\ ipc = [j \in IJobs |-> "idle"]
  /\ iproject = [j \in IJobs |-> NoProject]
  /\ ideps = [j \in IJobs |-> <<>>]
  /\ ihasErrors = [j \in IJobs |-> FALSE]
  /\ ipassed = [j \in IJobs |-> <<>>]
  /\ iwrote = [j \in IJobs |-> FALSE]
  /\ nodes = {}
  /\ edges = EmptyBag
  /\ nextNode = 1

\* add_project: get_or_none and, when absent, a Project object that is never
\* saved; then clone_and_index_repository.delay(repo_url, commit)
AddProject(j) ==
  /\ ipc[j] = "idle"
  /\ \A i \in IJobs : i < j => ipc[i] # "idle"
  /\ \E p \in ProjectKeys : iproject' = [iproject EXCEPT ![j] = p]
  /\ ipc' = [ipc EXCEPT ![j] = "clone"]
  /\ UNCHANGED <<ideps, ihasErrors, ipassed, iwrote, nodes, edges, nextNode>>

\* git clone and git checkout: a non-zero return code or a timeout ends the
\* job with status "failed"
IndexClone(j) ==
  /\ ipc[j] = "clone"
  /\ \/ ipc' = [ipc EXCEPT ![j] = "parse"]
     \/ ipc' = [ipc EXCEPT ![j] = "failed"]
  /\ UNCHANGED <<iproject, ideps, ihasErrors, ipassed, iwrote, nodes, edges, nextNode>>

\* What the job does with the validator's outcome: a raised ValueError is
\* caught by `except Exception` (status "failed"), a returned list is indexed
AfterParse(parsed) ==
  IF parsed.raised THEN [pc |-> "failed", dependencies |-> <<>>]
  ELSE [pc |-> "merge_root", dependencies |-> parsed.dependencies]

\* dep_info = parse_dependencies_from_repo(repo_path, repo_url, commit)
IndexParse(j) ==
  /\ ipc[j] = "parse"
  /\ \E m \in RepoManifests :
       LET parsed == parse_dependencies_from_repo(m.requires, m.declared)
           checked == ValidateAll(m.declared, lakefile_deps(m.requires))
       IN /\ ipc' = [ipc EXCEPT ![j] = AfterParse(parsed).pc]
          /\ ideps' = [ideps EXCEPT ![j] = AfterParse(parsed).dependencies]
          /\ ihasErrors' = [ihasErrors EXCEPT ![j] = checked.validation_errors # <<>>]
          /\ ipassed' = [ipassed EXCEPT ![j] = checked.dependencies]
  /\ UNCHANGED <<iproject, iwrote, nodes, edges, nextNode>>

\* session.run("MERGE (p:Project {...}) SET p.last_indexed = datetime()")
IndexMergeRoot(j) ==
  /\ ipc[j] = "merge_root"
  /\ LET p == iproject[j]
         merged == MergeProject(nodes, nextNode, p.repo_url, p.commit)
     IN /\ nodes' = SetLastIndexed(merged, p.repo_url, p.commit)
        /\ nextNode' = NextId(merged, nodes, nextNode)
  /\ iwrote' = [iwrote EXCEPT ![j] = TRUE]
  /\ ipc' = [ipc EXCEPT ![j] = "merge_deps"]
  /\ UNCHANGED <<iproject, ideps, ihasErrors, ipassed, edges>>

\* Variant of IndexMergeDep: the dependency is looked up with MATCH, so a
\* dependency that is not in the graph yields no row and no relationship
IndexMergeDep_MatchOnly(j) ==
  /\ ipc[j] = "merge_deps"
  /\ ideps[j] # <<>>
  /\ LET p == iproject[j]
         dep == Head(ideps[j])
     IN edges' = MergeEdges(edges,
                    {<<s.id, d.id>> : s \in Matching(nodes, p.repo_url, p.commit),
                                      d \in Matching(nodes, dep.git, dep.commit)})
  /\ ideps' = [ideps EXCEPT ![j] = Tail(@)]
  /\ iwrote' = [iwrote EXCEPT ![j] = TRUE]
  /\ UNCHANGED <<ipc, iproject, ihasErrors, ipassed, nodes, nextNode>>

\* for dep in dependencies: session.run("MERGE (d:Project {...}) WITH d
\*   MATCH (p:Project {...}) MERGE (p)-[r:DEPENDS_ON]->(d)")
IndexMergeDep(j) ==
  /\ ipc[j] = "merge_deps"
  /\ ideps[j] # <<>>
  /\ LET p == iproject[j]
         dep == Head(ideps[j])
         merged == MergeProject(nodes, nextNode, dep.git, dep.commit)
     IN /\ nodes' = merged
        /\ nextNode' = NextId(merged, nodes, nextNode)
        /\ edges' = MergeEdges(edges,
                    {<<s.id, d.id>> : s \in Matching(merged, p.repo_url, p.commit),
                                      d \in Matching(merged, dep.git, dep.commit)})
  /\ ideps' = [ideps EXCEPT ![j] = Tail(@)]
  /\ iwrote' = [iwrote EXCEPT ![j] = TRUE]
  /\ UNCHANGED <<ipc, iproject, ihasErrors, ipassed>>

\* The loop is over: result = {"status": "success", ...}
IndexSucceed(j) ==
  /\ ipc[j] = "merge_deps"
  /\ ideps[j] = <<>>
  /\ ipc' = [ipc EXCEPT ![j] = "success"]
  /\ UNCHANGED <<iproject, ideps, ihasErrors, ipassed, iwrote, nodes, edges, nextNode>>

\* GraphDatabase.driver / session.run raises: `except Exception`, "failed"
IndexNeo4jError(j) ==
  /\ ipc[j] \in {"merge_root", "merge_deps"}
  /\ ipc' = [ipc EXCEPT ![j] = "failed"]
  /\ ideps' = [ideps EXCEPT ![j] = <<>>]
  /\ UNCHANGED <<iproject, ihasErrors, ipassed, iwrote, nodes, edges, nextNode>>

\* ------------------------------------------------------------------------
\* neomodel: Project objects, get_or_none, save, connect
\* ------------------------------------------------------------------------
Key(repo_url, commit) == [repo_url |-> repo_url, commit |-> commit]

\* The (repo_url, commit) pairs the requests of the model name
RequestKeys == {Key("A", "r1"), Key("B", "r2")}

ternary_choices == {"valid", "invalid", "unknown"}

\* id of a Project object that was never saved
Unsaved == 0

\* schema.Project(repo_url=..., commit=...): the flags take their default
NewProject(key) ==
  [id |-> Unsaved, repo_url |-> key.repo_url, commit |-> key.commit,
   has_valid_dependencies |-> "unknown", has_valid_proof |-> "unknown",
   has_valid_paper |-> "unknown"]

\* A property the node does not have is given the default of its definition
DefaultOf(v) == IF v = "null" THEN "unknown" ELSE v

\* The object neomodel builds from a node it read
inflate(n) ==
  [id |-> n.id, repo_url |-> n.repo_url, commit |-> n.commit,
   has_valid_dependencies |-> DefaultOf(n.has_valid_dependencies),
   has_valid_proof |-> DefaultOf(n.has_valid_proof),
   has_valid_paper |-> DefaultOf(n.has_valid_paper)]

\* Project.nodes.get_or_none(repo_url=..., commit=...): None, the one node
\* with the key, or MultipleNodesReturned when several nodes carry it
get_or_none(ns, key) ==
  LET m == Matching(ns, key.repo_url, key.commit)
  IN IF m = {} THEN [outcome |-> "none", obj |-> NewProject(key)]
     ELSE IF Cardinality(m) = 1
          THEN [outcome |-> "one", obj |-> inflate(CHOOSE n \in m : TRUE)]
          ELSE [outcome |-> "raises", obj |-> NewProject(key)]

\* obj.save(): CREATE a node holding every defined property of an object
\* never saved, SET every defined property on the node of a saved one
save(ns, id, obj) ==
  IF obj.id = Unsaved
  THEN ns \cup {[id |-> id, repo_url |-> obj.repo_url, commit |-> obj.commit,
                 has_valid_dependencies |-> obj.has_valid_dependencies,
                 has_valid_proof |-> obj.has_valid_proof,
                 has_valid_paper |-> obj.has_valid_paper,
                 last_indexed |-> FALSE]}
  ELSE {IF n.id = obj.id
        THEN [n EXCEPT !.repo_url = obj.repo_url, !.commit = obj.commit,
                       !.has_valid_dependencies = obj.has_valid_dependencies,
                       !.has_valid_proof = obj.has_valid_proof,
                       !.has_valid_paper = obj.has_valid_paper]
        ELSE n : n \in ns}

\* The id of the node an object stands for once it is saved
SavedId(id, obj) == IF obj.id = Unsaved THEN id ELSE obj.id

\* "valid" if the request's boolean is true else "invalid"
FlagValue(b) == IF b THEN "valid" ELSE "invalid"

\* ------------------------------------------------------------------------
\* Handlers of the dependency service
\* ------------------------------------------------------------------------
NoResponse == [op |-> "none", status |-> 0]

\* AddProjectInternalRequest with no transaction open
NoHandler == [open |-> FALSE, source |-> NoProject, dependencies |-> <<>>,
              is_valid |-> FALSE, found |-> [outcome |-> "none", obj |-> NewProject(NoProject)]]

HandlersIdle ==
  /\ reqCount = 0
  /\ resp = NoResponse
  /\ hreq = NoHandler

\* The dependency lists an internal request may carry
InternalDepLists ==
  {<<>>} \cup {<<k>> : k \in RequestKeys} \cup {<<k, k>> : k \in RequestKeys}

InternalRequests ==
  [source : RequestKeys, dependencies : InternalDepLists, is_valid : BOOLEAN]

\* for dependency in request.dependencies: get_or_none, a new Project when
\* None, node.save(), dependency_nodes.append(node)
RECURSIVE SaveDependencies(_, _, _)
SaveDependencies(ns, id, deps) ==
  IF deps = <<>> THEN [nodes |-> ns, next |-> id, ids |-> <<>>, raised |-> FALSE]
  ELSE LET g == get_or_none(ns, Head(deps))
           saved == save(ns, id, g.obj)
           rest == SaveDependencies(saved, IF g.obj.id = Unsaved THEN id + 1 ELSE id,
                                    Tail(deps))
       IN IF g.outcome = "raises"
          THEN [nodes |-> ns, next |-> id, ids |-> <<>>, raised |-> TRUE]
          ELSE [nodes |-> rest.nodes, next |-> rest.next,
                ids |-> <<SavedId(id, g.obj)>> \o rest.ids, raised |-> rest.raised]

\* The write transaction of internal_add_project once the source was looked
\* up: the flag is set on the object, every dependency is saved, the source is
\* saved and connected to each dependency node. An exception rolls it back.
InternalTransaction(ns, es, id, found, request) ==
  LET new_project == [found.obj EXCEPT
                        !.has_valid_dependencies = FlagValue(request.is_valid)]
      deps == SaveDependencies(ns, id, request.dependencies)
      sid == SavedId(deps.next, new_project)
  IN IF found.outcome = "raises" \/ deps.raised
     THEN [nodes |-> ns, edges |-> es, next |-> id, status |-> 500]
     ELSE [nodes |-> save(deps.nodes, deps.next, new_project),
           edges |-> MergeEdges(es, {<<sid, deps.ids[i]>> : i \in 1..Len(deps.ids)}),
           next |-> IF new_project.id = Unsaved THEN deps.next + 1 ELSE deps.next,
           status |-> 202]

\* POST /internal/projects, its transaction running with no other writer
\* between the lookup of the source and the commit. (The requests it then
\* posts to /projects for the dependencies it created start index jobs:
\* AddProject.)
internal_add_project(request) ==
  /\ reqCount < MaxRequests
  /\ ~hreq.open
  /\ LET t == InternalTransaction(nodes, edges, nextNode,
                                  get_or_none(nodes, request.source), request)
     IN /\ nodes' = t.nodes
        /\ edges' = t.edges
        /\ nextNode' = t.next
        /\ resp' = [op |-> "internal_projects", status |-> t.status]
  /\ reqCount' = reqCount + 1
  /\ UNCHANGED <<hreq, jobVars>>

\* The same handler when other processes commit during its transaction:
\* new_project = get_or_none(source) ...
InternalLookup(request) ==
  /\ reqCount < MaxRequests
  /\ ~hreq.open
  /\ hreq' = [open |-> TRUE, source |-> request.source,
              dependencies |-> request.dependencies, is_valid |-> request.is_valid,
              found |-> get_or_none(nodes, request.source)]
  /\ UNCHANGED <<reqCount, resp, indexVars>>

\* ... and the rest of the transaction, up to the response
InternalCommit ==
  /\ hreq.open
  /\ LET t == InternalTransaction(nodes, edges, nextNode, hreq.found, hreq)
     IN /\ nodes' = t.nodes
        /\ edges' = t.edges
        /\ nextNode' = t.next
        /\ resp' = [op |-> "internal_projects", status |-> t.status]
  /\ reqCount' = reqCount + 1
  /\ hreq' = NoHandler
  /\ UNCHANGED jobVars

\* Variant of the callback: a missing node is created and given the flag
SetFlag_Upsert(ns, id, found, flag, value) ==
  IF found.outcome = "raises" THEN [nodes |-> ns, next |-> id, status |-> 500]
  ELSE [nodes |-> save(ns, id, [found.obj EXCEPT ![flag] = value]),
        next |-> IF found.obj.id = Unsaved THEN id + 1 ELSE id,
        status |-> 200]

\* project = get_or_none(...); 404 when None; project.<flag> = value;
\* project.save(). MultipleNodesReturned is answered 500.
SetFlag(ns, id, found, flag, value) ==
  IF found.outcome = "none" THEN [nodes |-> ns, next |-> id, status |-> 404]
  ELSE IF found.outcome = "raises" THEN [nodes |-> ns, next |-> id, status |-> 500]
  ELSE [nodes |-> save(ns, id, [found.obj EXCEPT ![flag] = value]),
        next |-> id, status |-> 200]

UpdateStatus(op, flag, key, has_valid_status) ==
  /\ reqCount < MaxRequests
  /\ ~hreq.open
  /\ LET t == SetFlag(nodes, nextNode, get_or_none(nodes, key), flag,
                      FlagValue(has_valid_status))
     IN /\ nodes' = t.nodes
        /\ nextNode' = t.next
        /\ resp' = [op |-> op, status |-> t.status]
  /\ reqCount' = reqCount + 1
  /\ UNCHANGED <<hreq, edges, jobVars>>

\* POST /internal/verification_status
internal_update_verification_status(key, has_valid_status) ==
  UpdateStatus("verification_status", "has_valid_proof", key, has_valid_status)

\* POST /internal/paper_status
internal_update_paper_status(key, has_valid_status) ==
  UpdateStatus("paper_status", "has_valid_paper", key, has_valid_status)

\* Variant of the handler: the destination is not looked up before the MERGE
add_dependency_NoDestinationCheck(source, dependency) ==
  /\ reqCount < MaxRequests
  /\ ~hreq.open
  /\ LET ps == Matching(nodes, source.repo_url, source.commit)
         ds == Matching(nodes, dependency.repo_url, dependency.commit)
     IN IF ps = {}
        THEN /\ resp' = [op |-> "dependencies", status |-> 404]
             /\ edges' = edges
        ELSE /\ edges' = MergeEdges(edges, {<<p.id, d.id>> : p \in ps, d \in ds})
             /\ resp' = [op |-> "dependencies", status |-> 201]
  /\ reqCount' = reqCount + 1
  /\ UNCHANGED <<hreq, nodes, nextNode, jobVars>>

\* POST /dependencies: 404 unless MATCH finds the source and the destination;
\* then MATCH (p) MATCH (d) MERGE (p)-[:DEPENDS_ON]->(d), answered 201, or 500
\* when the statement raises
add_dependency(source, dependency) ==
  /\ reqCount < MaxRequests
  /\ ~hreq.open
  /\ LET ps == Matching(nodes, source.repo_url, source.commit)
         ds == Matching(nodes, dependency.repo_url, dependency.commit)
     IN IF ps = {} \/ ds = {}
        THEN /\ resp' = [op |-> "dependencies", status |-> 404]
             /\ edges' = edges
        ELSE \/ /\ edges' = MergeEdges(edges, {<<p.id, d.id>> : p \in ps, d \in ds})
                /\ resp' = [op |-> "dependencies", status |-> 201]
             \/ /\ edges' = edges
                /\ resp' = [op |-> "dependencies", status |-> 500]
  /\ reqCount' = reqCount + 1
  /\ UNCHANGED <<hreq, nodes, nextNode, jobVars>>

\* ------------------------------------------------------------------------
\* Creation request: add_project of main_fastapi
\* ------------------------------------------------------------------------
NoSubmitResponse == [status_code |-> 0, task_id |-> NoTask, status |-> "none"]

SubmitIdle ==
  /\ spc = [j \in IJobs |-> "idle"]
  /\ sverify = [j \in IJobs |-> "none"]
  /\ slatex = [j \in IJobs |-> "none"]
  /\ sresp = [j \in IJobs |-> NoSubmitResponse]

\* What the handler sees of httpx.post(.../run): a response with is_success,
\* a response without, or an exception
FollowOnOutcomes == {"success", "non_success", "exception"}

\* The handler is `async def` and its calls block: a request is served when
\* none is in progress
NoSubmitInProgress == \A i \in DOMAIN spc : spc[i] \in {"idle", "done", "error500"}

\* The transaction with get_or_none (the Project built when it returns None
\* is never saved), then clone_and_index_repository.delay(repo_url, commit):
\* the task is published; or one of the two raises and the request is
\* answered 500; or delay returns the task id although the message never
\* reaches the queue (the publish is not confirmed by the broker)
SubmitEnqueue(j) ==
  /\ spc[j] = "idle"
  /\ ipc[j] = "idle"
  /\ NoSubmitInProgress
  /\ \/ /\ AddProject(j)
        /\ get_or_none(nodes, iproject'[j]).outcome # "raises"
        /\ spc' = [spc EXCEPT ![j] = "verification"]
        /\ UNCHANGED sresp
     \/ /\ \A i \in IJobs : i < j => ipc[i] # "idle"
        /\ ipc' = [ipc EXCEPT ![j] = "unpublished"]
        /\ spc' = [spc EXCEPT ![j] = "error500"]
        /\ sresp' = [sresp EXCEPT ![j] = [status_code |-> 500, task_id |-> NoTask,
                                          status |-> "none"]]
        /\ UNCHANGED <<iproject, ideps, ihasErrors, ipassed, iwrote, nodes, edges, nextNode>>
     \/ /\ \A i \in IJobs : i < j => ipc[i] # "idle"
        /\ \E p \in ProjectKeys :
             /\ get_or_none(nodes, p).outcome # "raises"
             /\ iproject' = [iproject EXCEPT ![j] = p]
        /\ ipc' = [ipc EXCEPT ![j] = "lost"]
        /\ spc' = [spc EXCEPT ![j] = "verification"]
        /\ UNCHANGED <<sresp, ideps, ihasErrors, ipassed, iwrote, nodes, edges, nextNode>>
  /\ UNCHANGED <<sverify, slatex>>

\* Variant of SubmitVerification: the call is outside any try block, so an
\* exception ends the request with status 500
SubmitVerification_Uncaught(j) ==
  /\ spc[j] = "verification"
  /\ \E o \in FollowOnOutcomes :
       /\ sverify' = [sverify EXCEPT ![j] = o]
       /\ spc' = [spc EXCEPT ![j] = IF o = "exception" THEN "error500" ELSE "latex"]
       /\ sresp' = [sresp EXCEPT ![j] =
                      IF o = "exception"
                      THEN [status_code |-> 500, task_id |-> NoTask, status |-> "none"]
                      ELSE @]
  /\ UNCHANGED slatex

\* try: httpx.post("http://verification-service:8000/run", ...); every
\* outcome is logged
SubmitVerification(j) ==
  /\ spc[j] = "verification"
  /\ \E o \in FollowOnOutcomes : sverify' = [sverify EXCEPT ![j] = o]
  /\ spc' = [spc EXCEPT ![j] = "latex"]
  /\ UNCHANGED <<slatex, sresp>>

\* try: httpx.post("http://latex-service:8000/run", ...); every outcome is
\* logged
SubmitLatex(j) ==
  /\ spc[j] = "latex"
  /\ \E o \in FollowOnOutcomes : slatex' = [slatex EXCEPT ![j] = o]
  /\ spc' = [spc EXCEPT ![j] = "respond"]
  /\ UNCHANGED <<sverify, sresp>>

\* return JSONResponse(AddProjectResponse(task_id=task.id, status="queued"), 202)
SubmitRespond(j) ==
  /\ spc[j] = "respond"
  /\ sresp' = [sresp EXCEPT ![j] = [status_code |-> 202, task_id |-> j, status |-> "queued"]]
  /\ spc' = [spc EXCEPT ![j] = "done"]
  /\ UNCHANGED <<sverify, slatex>>

\* ------------------------------------------------------------------------
\* The dependency listings
\* ------------------------------------------------------------------------
\* rows: the list a direct listing answers with; entries: the entries of the
\* list a transitive listing answers with, each with its number of copies
NoListing == [op |-> "none", status |-> 0, rows |-> <<>>, entries |-> {}]

NoQuery == listing = NoListing

\* ------------------------------------------------------------------------
\* pdf-service
\* ------------------------------------------------------------------------
\* File contents: byte strings
Bytes == {0, 1}
PdfBytes == SeqsUpTo(Bytes, MaxPdfLen)

NoFile == [exists |-> FALSE, bytes |-> <<>>]
File(bytes) == [exists |-> TRUE, bytes |-> bytes]

\* The pdf_data field: base64.b64encode(bytes).decode(), or a string that
\* base64.b64decode rejects with binascii.Error
b64encode(bytes) == [valid |-> TRUE, bytes |-> bytes]
InvalidBase64 == [valid |-> FALSE, bytes |-> <<>>]
PdfData == {b64encode(b) : b \in PdfBytes} \cup {InvalidBase64}
NoPdfData == InvalidBase64

\* What a response carries: nothing, the size of a written file, the bytes
\* of a read file, or an error
NoContent == [what |-> "none", size_bytes |-> 0, bytes |-> <<>>]
SizeContent(bytes) == [what |-> "size", size_bytes |-> Len(bytes), bytes |-> <<>>]
BytesContent(bytes) == [what |-> "bytes", size_bytes |-> 0, bytes |-> bytes]
ErrorContent == [what |-> "error", size_bytes |-> 0, bytes |-> <<>>]

\* A response with status 204 has no body: the JSON document handed to
\* JSONResponse(status_code=204) is not part of what the client receives
Received(status_code, content) == IF status_code = 204 THEN NoContent ELSE content

NoPdfResponse == [op |-> "none", git_url |-> None, commit_hash |-> None,
                  pdf_data |-> NoPdfData, status_code |-> 0, content |-> NoContent]

PdfResponse(op, git_url, commit_hash, pdf_data, status_code, content) ==
  [op |-> op, git_url |-> git_url, commit_hash |-> commit_hash, pdf_data |-> pdf_data,
   status_code |-> status_code, content |-> Received(status_code, content)]

\* hashlib.sha256(git_url.encode()).hexdigest()
sha256(git_url) == <<"sha256", git_url>>

\* dir_path / f"{commit_hash}.pdf", dir_path named by the hash of the URL
get_pdf_path(git_url, commit_hash) == <<sha256(git_url), commit_hash, ".pdf">>

PdfKeys == [git_url : {RepoUrl, "other"}, commit_hash : {CommitHash}]
PdfPaths == {get_pdf_path(k.git_url, k.commit_hash) : k \in PdfKeys}

NoArtifact == [clones |-> FALSE, deps_valid |-> FALSE, builds |-> FALSE, compiles |-> FALSE,
               pdf |-> <<>>]

BlobIdle ==
  /\ pfiles = [path \in PdfPaths |-> NoFile]
  /\ presp = NoPdfResponse
  /\ artifact = NoArtifact
  /\ lupload = <<>>

\* POST /pdf
create_pdf(git_url, commit_hash, pdf_data) ==
  LET pdf_path == get_pdf_path(git_url, commit_hash)
  IN /\ IF pfiles[pdf_path].exists
        THEN /\ presp' = PdfResponse("create", git_url, commit_hash, pdf_data, 409, ErrorContent)
             /\ UNCHANGED pfiles
        ELSE IF ~pdf_data.valid
        THEN /\ presp' = PdfResponse("create", git_url, commit_hash, pdf_data, 400, ErrorContent)
             /\ UNCHANGED pfiles
        ELSE /\ pfiles' = [pfiles EXCEPT ![pdf_path] = File(pdf_data.bytes)]
             /\ presp' = PdfResponse("create", git_url, commit_hash, pdf_data, 201,
                                     SizeContent(pdf_data.bytes))
     /\ UNCHANGED <<artifact, lupload>>

\* GET /{git_url_encoded}/{commit_hash}/main.pdf
read_pdf(git_url, commit_hash) ==
  LET pdf_path == get_pdf_path(git_url, commit_hash)
  IN /\ presp' = IF pfiles[pdf_path].exists
                 THEN PdfResponse("read", git_url, commit_hash, NoPdfData, 200,
                                  BytesContent(pfiles[pdf_path].bytes))
                 ELSE PdfResponse("read", git_url, commit_hash, NoPdfData, 404, ErrorContent)
     /\ UNCHANGED <<pfiles, artifact, lupload>>

\* What PUT /pdf does for a request body that passed validation
UpdateFile(files, git_url, commit_hash, pdf_data) ==
  LET pdf_path == get_pdf_path(git_url, commit_hash)
      resource_exists == files[pdf_path].exists
  IN IF ~pdf_data.valid
     THEN [files |-> files, status_code |-> 400, content |-> ErrorContent]
     ELSE [files |-> [files EXCEPT ![pdf_path] = File(pdf_data.bytes)],
           status_code |-> IF resource_exists THEN 204 ELSE 201,
           content |-> SizeContent(pdf_data.bytes)]

\* PUT /pdf
update_pdf(git_url, commit_hash, pdf_data) ==
  LET u == UpdateFile(pfiles, git_url, commit_hash, pdf_data)
  IN /\ pfiles' = u.files
     /\ presp' = PdfResponse("update", git_url, commit_hash, pdf_data, u.status_code, u.content)
     /\ UNCHANGED <<artifact, lupload>>

\* DELETE /pdf
delete_pdf(git_url, commit_hash) ==
  LET pdf_path == get_pdf_path(git_url, commit_hash)
  IN /\ IF pfiles[pdf_path].exists
        THEN /\ pfiles' = [pfiles EXCEPT ![pdf_path] = NoFile]
             /\ presp' = PdfResponse("delete", git_url, commit_hash, NoPdfData, 200, NoContent)
        ELSE /\ presp' = PdfResponse("delete", git_url, commit_hash, NoPdfData, 404,
                                     ErrorContent)
             /\ UNCHANGED pfiles
     /\ UNCHANGED <<artifact, lupload>>


KeysIdle ==
  /\ ksubject = <<>>
  /\ kjobs = <<>>
  /\ kstore = {}
  /\ kpoll = <<>>

\* Ids of the nodes at the end of a path of zero or more DEPENDS_ON
\* relationships that starts at a node of `from` ([:DEPENDS_ON*0..])
RECURSIVE Reachable(_, _)
Reachable(es, from) ==
  LET next == from \cup {e[2] : e \in {f \in BagToSet(es) : f[1] \in from}}
  IN IF next = from THEN from ELSE Reachable(es, next)

\* properties(d): the map of the properties the node has
properties(n) ==
  [repo_url |-> n.repo_url, commit |-> n.commit,
   has_valid_dependencies |-> n.has_valid_dependencies,
   has_valid_proof |-> n.has_valid_proof, has_valid_paper |-> n.has_valid_paper,
   last_indexed |-> n.last_indexed]

\* result[0]["has_valid_..."] finds the three flags in the map
HasFlags(p) ==
  /\ p.has_valid_dependencies # "null"
  /\ p.has_valid_proof # "null"
  /\ p.has_valid_paper # "null"

\* DependencyListResponse built from a row (paper_url is computed from
\* repo_url and commit)
DependencyListResponse(p) ==
  [repo_url |-> p.repo_url, commit |-> p.commit,
   has_valid_dependencies |-> p.has_valid_dependencies,
   has_valid_proof |-> p.has_valid_proof, has_valid_paper |-> p.has_valid_paper]

\* MATCH (p:Project {repo_url, commit})-[:DEPENDS_ON*0..]->(d:Project)
\* RETURN DISTINCT properties(d): the distinct property maps
TransitiveQuery(ns, es, key) ==
  LET start == {n.id : n \in Matching(ns, key.repo_url, key.commit)}
  IN {properties(n) : n \in {d \in ns : d.id \in Reachable(es, start)}}

\* The response list, one entry per row and in no stated order. A row
\* without a flag raises KeyError and the request is answered 500.
TransitiveListing(ns, es, key) ==
  LET result == TransitiveQuery(ns, es, key)
  IN IF \E p \in result : ~HasFlags(p)
     THEN [op |-> "transitive", status |-> 500, rows |-> <<>>, entries |-> {}]
     ELSE [op |-> "transitive", status |-> 200, rows |-> <<>>,
           entries |-> {[entry |-> DependencyListResponse(p),
                         copies |-> Cardinality({q \in result :
                                       DependencyListResponse(q) = DependencyListResponse(p)})] :
                        p \in result}]

\* GET /projects/dependencies (main_fastapi)
get_project_dependencies_fastapi(project) ==
  /\ ~hreq.open
  /\ listing' = TransitiveListing(nodes, edges, project)
  /\ UNCHANGED <<indexVars, handlerVars>>

\* Position of a string in the order ORDER BY sorts the model's strings in
StringRank(str) == CASE str = "A" -> 1 [] str = "B" -> 2 [] str = "r1" -> 1 [] str = "r2" -> 2

\* ORDER BY d.repo_url, d.commit
OrderedBefore(a, b) ==
  \/ StringRank(a.dependency_repo) < StringRank(b.dependency_repo)
  \/ /\ a.dependency_repo = b.dependency_repo
     /\ StringRank(a.dependency_commit) <= StringRank(b.dependency_commit)

\* DependencyInfo built from a record of the direct query
DependencyInfo(p, d) ==
  [source_repo |-> p.repo_url, source_commit |-> p.commit,
   dependency_repo |-> d.repo_url, dependency_commit |-> d.commit]

\* The rows of a bag of records as a list in ORDER BY order
RECURSIVE OrderedRows(_)
OrderedRows(bag) ==
  IF BagToSet(bag) = {} THEN <<>>
  ELSE LET first == CHOOSE r \in BagToSet(bag) :
                      \A q \in BagToSet(bag) : OrderedBefore(r, q)
       IN <<first>> \o OrderedRows(bag (-) SetToBag({first}))

\* MATCH (p:Project {repo_url, commit})-[:DEPENDS_ON]->(d:Project)
\* RETURN p.repo_url, p.commit, d.repo_url, d.commit: one record per match
\* of the pattern, that is, per relationship leaving a node with the key
DirectQuery(ns, es, key) ==
  LET out == {e \in BagToSet(es) :
                \E p \in Matching(ns, key.repo_url, key.commit) : p.id = e[1]}
      RowOf(e) == DependencyInfo(CHOOSE p \in ns : p.id = e[1], CHOOSE d \in ns : d.id = e[2])
      records == {RowOf(e) : e \in out}
  IN [r \in records |-> BagCardinality([e \in {f \in out : RowOf(f) = r} |-> CopiesIn(e, es)])]

\* Variant of the direct query: the pattern follows any number of relationships
DirectListing_AnyDepth(ns, es, key) ==
  LET start == {n.id : n \in Matching(ns, key.repo_url, key.commit)}
      far == {d \in ns : d.id \in Reachable(es, {e[2] : e \in {f \in BagToSet(es) : f[1] \in start}})}
  IN [op |-> "direct", status |-> 200, entries |-> {},
      rows |-> OrderedRows(SetToBag({DependencyInfo(key, d) : d \in far}))]

DirectListing(ns, es, key) ==
  [op |-> "direct", status |-> 200, entries |-> {},
   rows |-> OrderedRows(DirectQuery(ns, es, key))]

\* GET /projects/{repo_url}/{commit}/dependencies (main)
get_project_dependencies_main(repo_url, commit) ==
  /\ ~hreq.open
  /\ listing' = DirectListing(nodes, edges, Key(repo_url, commit))
  /\ UNCHANGED <<indexVars, handlerVars>>

\* ------------------------------------------------------------------------
\* dependency-task: main and index_dependencies_in_neo4j
\* ------------------------------------------------------------------------
Tasks == 1..MaxTasks

TasksIdle ==
  /\ tpc = [t \in Tasks |-> "idle"]
  /\ troot = [t \in Tasks |-> NoProject]
  /\ tdeps = [t \in Tasks |-> <<>>]
  /\ tobj = [t \in Tasks |-> NewProject(NoProject)]
  /\ tids = [t \in Tasks |-> <<>>]

\* main: URL and COMMIT_HASH of the environment
TaskStart(t) ==
  /\ tpc[t] = "idle"
  /\ \A i \in Tasks : i < t => tpc[i] # "idle"
  /\ \E p \in RequestKeys : troot' = [troot EXCEPT ![t] = p]
  /\ tpc' = [tpc EXCEPT ![t] = "parse"]
  /\ UNCHANGED <<tdeps, tobj, tids>>
  /\ UNCHANGED <<indexVars, handlerVars>>

\* clone_repository and parse_dependencies_from_repo: main returns 1 when the
\* clone fails or the validator raises
TaskParse(t) ==
  /\ tpc[t] = "parse"
  /\ \/ tpc' = [tpc EXCEPT ![t] = "failed"] /\ UNCHANGED tdeps
     \/ \E m \in RepoManifests :
          LET parsed == parse_dependencies_from_repo(m.requires, m.declared)
          IN IF parsed.raised
             THEN tpc' = [tpc EXCEPT ![t] = "failed"] /\ UNCHANGED tdeps
             ELSE /\ tpc' = [tpc EXCEPT ![t] = "lookup"]
                  /\ tdeps' = [tdeps EXCEPT ![t] =
                                 [i \in 1..Len(parsed.dependencies) |->
                                    Key(parsed.dependencies[i].git,
                                        parsed.dependencies[i].commit)]]
  /\ UNCHANGED <<troot, tobj, tids>>
  /\ UNCHANGED <<indexVars, handlerVars>>

\* index_dependencies_in_neo4j, the reads of its transaction: get_or_none of
\* every dependency (False is returned when one is None), then of the project
TaskLookup(t) ==
  /\ tpc[t] = "lookup"
  /\ LET found == [i \in 1..Len(tdeps[t]) |-> get_or_none(nodes, tdeps[t][i])]
         root == get_or_none(nodes, troot[t])
     IN IF \/ \E i \in 1..Len(found) : found[i].outcome # "one"
           \/ root.outcome = "raises"
        THEN /\ tpc' = [tpc EXCEPT ![t] = "failed"]
             /\ tdeps' = [tdeps EXCEPT ![t] = <<>>]
             /\ UNCHANGED <<tobj, tids>>
        ELSE /\ tpc' = [tpc EXCEPT ![t] = "commit"]
             /\ tdeps' = [tdeps EXCEPT ![t] = <<>>]
             /\ tobj' = [tobj EXCEPT ![t] = root.obj]
             /\ tids' = [tids EXCEPT ![t] = [i \in 1..Len(found) |-> found[i].obj.id]]
  /\ UNCHANGED troot
  /\ UNCHANGED <<indexVars, handlerVars>>

\* ... and its writes: new_project.save(), then for every dependency
\* new_project.dependencies.connect(dependency_node).save(). The relationship
\* `dependencies` is declared without a relationship model, so connect()
\* returns True, and True.save() raises AttributeError inside the
\* transaction: with no dependency the save is committed, with one or more
\* the transaction is rolled back and the process ends on the exception
TaskCommit(t) ==
  /\ tpc[t] = "commit"
  /\ IF tids[t] = <<>>
     THEN /\ nodes' = save(nodes, nextNode, tobj[t])
          /\ nextNode' = IF tobj[t].id = Unsaved THEN nextNode + 1 ELSE nextNode
          /\ tpc' = [tpc EXCEPT ![t] = "done"]
     ELSE /\ UNCHANGED <<nodes, nextNode>>
          /\ tpc' = [tpc EXCEPT ![t] = "failed"]
  /\ UNCHANGED edges
  /\ tobj' = [tobj EXCEPT ![t] = NewProject(NoProject)]
  /\ tids' = [tids EXCEPT ![t] = <<>>]
  /\ UNCHANGED <<troot, tdeps, jobVars, handlerVars>>

NextIndex ==
  /\ UNCHANGED <<workerVars, validatorVars, handlerVars, taskVars, queryVars,
                 submitVars, keyVars, blobVars>>
  /\ \/ \E j \in IJobs : AddProject(j)
     \/ \E j \in IJobs : IndexClone(j)
     \/ \E j \in IJobs : IndexParse(j)
     \/ \E j \in IJobs : IndexMergeRoot(j)
     \/ \E j \in IJobs : IndexMergeDep(j)
     \/ \E j \in IJobs : IndexSucceed(j)
     \/ \E j \in IJobs : IndexNeo4jError(j)

Init ==
  /\ WorkerInit /\ ValidatorIdle /\ IndexIdle /\ HandlersIdle /\ TasksIdle /\ NoQuery
  /\ SubmitIdle /\ KeysIdle /\ BlobIdle

\* The request handlers of POST /run, the broker and the workers
NextWorker ==
  /\ UNCHANGED <<validatorVars, indexVars, handlerVars, taskVars, queryVars,
                 submitVars, keyVars, blobVars>>
  /\ \/ VerifyDelay
     \/ LatexDelay
     \/ \E j \in Jobs : VerifySet(j)
     \/ \E j \in Jobs : VerifyExpire(j)
     \/ \E k \in RedisKeys : ExpireTTL(k)
     \/ \E j \in Jobs : WorkerStart(j)
     \/ \E j \in Jobs : WorkerSetRunning(j)
     \/ \E j \in Jobs : WorkerExpireRunning(j)
     \/ \E j \in Jobs : WorkerSpawn(j)
     \/ \E j \in Jobs : WorkerWait(j)
     \/ \E j \in Jobs : WorkerLogs(j)
     \/ \E j \in Jobs : WorkerSetFinal(j)
     \/ \E j \in Jobs : WorkerExpireFinal(j)
     \/ \E j \in Jobs : WorkerCallback(j)
     \/ \E j \in Jobs : WorkerRemove(j)
     \/ \E j \in Jobs : WorkerCrash(j)

SpecWorker == Init /\ [][NextWorker]_vars

\* The same with a client polling POST /status
Next ==
  \/ NextWorker
  \/ GetStatus /\ UNCHANGED <<validatorVars, indexVars, handlerVars, taskVars, queryVars,
                              submitVars, keyVars, blobVars>>

Spec == Init /\ [][Next]_vars

\* The same with a status entry that may hold undecodable content
SpecCorrupt ==
  Init /\ [][Next \/ (CorruptEntry /\ UNCHANGED <<validatorVars, indexVars, handlerVars,
                                                     taskVars, queryVars, submitVars,
                                                     keyVars, blobVars>>)]_vars

\* The validator alone, over every manifest pair within the bounds
InitValidator ==
  /\ WorkerInit /\ ValidatorInputs /\ IndexIdle /\ HandlersIdle /\ TasksIdle /\ NoQuery
  /\ SubmitIdle /\ KeysIdle /\ BlobIdle

SpecValidator == InitValidator /\ [][RunValidator]_vars

\* The index jobs and the graph
SpecIndex == Init /\ [][NextIndex]_vars

\* The index jobs that run beside the requests of the dependency service
GraphJobs == 1..MaxGraphJobs

GraphJobStep ==
  /\ UNCHANGED handlerVars
  /\ \/ \E j \in GraphJobs : AddProject(j)
     \/ \E j \in GraphJobs : IndexClone(j)
     \/ \E j \in GraphJobs : IndexParse(j)
     \/ \E j \in GraphJobs : IndexMergeRoot(j)
     \/ \E j \in GraphJobs : IndexMergeDep(j)
     \/ \E j \in GraphJobs : IndexSucceed(j)
     \/ \E j \in GraphJobs : IndexNeo4jError(j)

\* Index jobs and connect-dependency requests
NextConnect ==
  /\ UNCHANGED <<workerVars, validatorVars, taskVars, queryVars, submitVars, keyVars, blobVars>>
  /\ \/ GraphJobStep
     \/ \E s \in RequestKeys, d \in RequestKeys : add_dependency(s, d)

SpecConnect == Init /\ [][NextConnect]_vars

\* The requests of the dependency service alone, each served in one step
NextService ==
  /\ UNCHANGED <<workerVars, validatorVars, taskVars, queryVars, submitVars, keyVars, blobVars>>
  /\ \/ \E s \in RequestKeys, d \in RequestKeys : add_dependency(s, d)
     \/ \E r \in InternalRequests : internal_add_project(r)
     \/ \E k \in RequestKeys, b \in BOOLEAN : internal_update_verification_status(k, b)
     \/ \E k \in RequestKeys, b \in BOOLEAN : internal_update_paper_status(k, b)

SpecService == Init /\ [][NextService]_vars

\* Index jobs and every request of the dependency service, each request
\* served in one step
NextGraph ==
  /\ UNCHANGED <<workerVars, validatorVars, taskVars, queryVars, submitVars, keyVars, blobVars>>
  /\ \/ GraphJobStep
     \/ \E s \in RequestKeys, d \in RequestKeys : add_dependency(s, d)
     \/ \E r \in InternalRequests : internal_add_project(r)
     \/ \E k \in RequestKeys, b \in BOOLEAN : internal_update_verification_status(k, b)
     \/ \E k \in RequestKeys, b \in BOOLEAN : internal_update_paper_status(k, b)

SpecGraph == Init /\ [][NextGraph]_vars

\* The processes that write the graph with get_or_none and save, side by
\* side: the dependency-task processes and the service, whose handlers run
\* one at a time while the other processes commit during their transactions
NextTasks ==
  /\ UNCHANGED <<workerVars, validatorVars, queryVars, submitVars, keyVars, blobVars>>
  /\ \/ (\E r \in InternalRequests : InternalLookup(r)) /\ UNCHANGED taskVars
     \/ InternalCommit /\ UNCHANGED taskVars
     \/ (\E k \in RequestKeys, b \in BOOLEAN : internal_update_verification_status(k, b))
        /\ UNCHANGED taskVars
     \/ (\E k \in RequestKeys, b \in BOOLEAN : internal_update_paper_status(k, b))
        /\ UNCHANGED taskVars
     \/ \E t \in Tasks : TaskStart(t)
     \/ \E t \in Tasks : TaskParse(t)
     \/ \E t \in Tasks : TaskLookup(t)
     \/ \E t \in Tasks : TaskCommit(t)

SpecTasks == Init /\ [][NextTasks]_vars

\* The three artifacts of the listing scenarios: base, algebra (depends on
\* base) and advanced (depends on base and algebra)
Base == Key("A", "r1")
Algebra == Key("B", "r2")
Advanced == Key("A", "r2")
ListingKeys == {Base, Algebra, Advanced}

ListingRequests ==
  [source : ListingKeys,
   dependencies : {<<>>} \cup {<<k>> : k \in ListingKeys}
                         \cup {<<p[1], p[2]>> : p \in {q \in ListingKeys \X ListingKeys :
                                                          q[1] # q[2]}},
   is_valid : {TRUE}]

\* The requests that write nodes and relationships, and the two listings
NextListing ==
  /\ UNCHANGED <<workerVars, validatorVars, taskVars, submitVars, keyVars, blobVars>>
  /\ \/ (\E r \in ListingRequests : internal_add_project(r)) /\ UNCHANGED queryVars
     \/ (\E s \in ListingKeys, d \in ListingKeys : add_dependency(s, d))
        /\ UNCHANGED queryVars
     \/ \E k \in ListingKeys : get_project_dependencies_fastapi(k)
     \/ \E k \in ListingKeys : get_project_dependencies_main(k.repo_url, k.commit)

SpecListing == Init /\ [][NextListing]_vars

\* Creation requests sent one after the other, each sent when the index job
\* of the one before has ended (test_add_interconnected_packages), and the
\* two listings
ScenarioJobs == 1..MaxScenarioJobs

ScenarioIdle ==
  /\ ipc = [j \in ScenarioJobs |-> "idle"]
  /\ iproject = [j \in ScenarioJobs |-> NoProject]
  /\ ideps = [j \in ScenarioJobs |-> <<>>]
  /\ ihasErrors = [j \in ScenarioJobs |-> FALSE]
  /\ ipassed = [j \in ScenarioJobs |-> <<>>]
  /\ iwrote = [j \in ScenarioJobs |-> FALSE]
  /\ nodes = {}
  /\ edges = EmptyBag
  /\ nextNode = 1

InitScenario ==
  /\ WorkerInit /\ ValidatorIdle /\ ScenarioIdle /\ HandlersIdle /\ TasksIdle /\ NoQuery
  /\ SubmitIdle /\ KeysIdle /\ BlobIdle

Ended(j) == ipc[j] \in {"success", "failed"}

\* The artifacts in the order their creation requests are sent
ScenarioRoots == <<Base, Algebra, Advanced, Key("B", "r1")>>

NextScenario ==
  /\ UNCHANGED <<workerVars, validatorVars, taskVars, submitVars, keyVars, blobVars>>
  /\ \/ (\E j \in ScenarioJobs :
            /\ AddProject(j)
            /\ iproject'[j] = ScenarioRoots[j]
            /\ \A i \in ScenarioJobs : i < j => Ended(i))
        /\ UNCHANGED <<handlerVars, queryVars>>
     \/ (\E j \in ScenarioJobs : IndexClone(j)) /\ UNCHANGED <<handlerVars, queryVars>>
     \/ (\E j \in ScenarioJobs : IndexParse(j)) /\ UNCHANGED <<handlerVars, queryVars>>
     \/ (\E j \in ScenarioJobs : IndexMergeRoot(j)) /\ UNCHANGED <<handlerVars, queryVars>>
     \/ (\E j \in ScenarioJobs : IndexMergeDep(j)) /\ UNCHANGED <<handlerVars, queryVars>>
     \/ (\E j \in ScenarioJobs : IndexSucceed(j)) /\ UNCHANGED <<handlerVars, queryVars>>
     \/ (\E j \in ScenarioJobs : IndexNeo4jError(j)) /\ UNCHANGED <<handlerVars, queryVars>>
     \/ \E k \in ListingKeys : get_project_dependencies_main(k.repo_url, k.commit)
     \/ \E k \in ListingKeys : get_project_dependencies_fastapi(k)

SpecScenario == InitScenario /\ [][NextScenario]_vars

\* Creation requests with their index jobs running beside them
NextSubmit ==
  /\ UNCHANGED <<workerVars, validatorVars, handlerVars, taskVars, queryVars, keyVars, blobVars>>
  /\ \/ (\E j \in GraphJobs : SubmitEnqueue(j))
     \/ (\E j \in GraphJobs : SubmitVerification(j)) /\ UNCHANGED indexVars
     \/ (\E j \in GraphJobs : SubmitLatex(j)) /\ UNCHANGED indexVars
     \/ (\E j \in GraphJobs : SubmitRespond(j)) /\ UNCHANGED indexVars
     \/ (\E j \in IJobs : IndexClone(j)) /\ UNCHANGED submitVars
     \/ (\E j \in IJobs : IndexParse(j)) /\ UNCHANGED submitVars
     \/ (\E j \in IJobs : IndexMergeRoot(j)) /\ UNCHANGED submitVars
     \/ (\E j \in IJobs : IndexMergeDep(j)) /\ UNCHANGED submitVars
     \/ (\E j \in IJobs : IndexSucceed(j)) /\ UNCHANGED submitVars

SpecSubmit == Init /\ [][NextSubmit]_vars

\* One creation request with the three jobs it starts: the index job, the
\* verification job and the latex job, whose callbacks reach the dependency
\* service
OrderJobs == 1..MaxOrderJobs

OrderWorkerInit ==
  /\ nextId = 1
  /\ kind = [j \in OrderJobs |-> "none"]
  /\ queue = {}
  /\ hpc = [j \in OrderJobs |-> "idle"]
  /\ wpc = [j \in OrderJobs |-> "idle"]
  /\ store = [k \in RedisKeys |-> NoEntry]
  /\ container = [j \in OrderJobs |-> "none"]
  /\ cvar = [j \in OrderJobs |-> FALSE]
  /\ exit_code = [j \in OrderJobs |-> DefaultExitCode]
  /\ waited = [j \in OrderJobs |-> "no"]
  /\ reported = [j \in OrderJobs |-> DefaultExitCode]
  /\ written = [j \in OrderJobs |-> "none"]
  /\ cbCount = [j \in OrderJobs |-> 0]
  /\ cbFlag = [j \in OrderJobs |-> "none"]
  /\ cbResult = [j \in OrderJobs |-> "none"]
  /\ poll = NotFound

InitOrder ==
  /\ OrderWorkerInit /\ ValidatorIdle /\ IndexIdle /\ HandlersIdle /\ TasksIdle /\ NoQuery
  /\ SubmitIdle /\ KeysIdle /\ BlobIdle

Published(k) == \E j \in DOMAIN kind : kind[j] = k

\* What the worker sees of the response of the dependency service
CallbackResult(status) ==
  IF status = 200 THEN "ok" ELSE IF status = 404 THEN "not_found_404" ELSE "error_500"

\* The callback of job j: the request reaches the handler of the dependency
\* service, which answers and, on 200, has set the flag; the worker sees the
\* response, or an exception when the response does not arrive in time; or
\* the request does not reach the service and the worker sees an exception
OrderCallback(j) ==
  /\ WorkerCallback(j)
  /\ \/ /\ IF kind[j] = "verification"
           THEN internal_update_verification_status(iproject[1], HasValidStatus(exit_code[j]))
           ELSE internal_update_paper_status(iproject[1], HasValidStatus(exit_code[j]))
        /\ cbResult'[j] \in {CallbackResult(resp'.status), "exception"}
     \/ /\ cbResult'[j] = "exception"
        /\ UNCHANGED <<indexVars, handlerVars>>

\* add_project waits in httpx.post while verify() of the verification
\* service runs: 2xx after the 202 of verify(), non-2xx after its 500, an
\* exception at any time
OrderSubmitVerification ==
  /\ SubmitVerification(1)
  /\ sverify'[1] = "success" => \E j \in DOMAIN hpc : hpc[j] = "accepted"
  /\ sverify'[1] = "non_success" => \E j \in DOMAIN hpc : hpc[j] = "error500"

\* add_project waits in httpx.post while the latex service publishes its job
OrderSubmitLatex ==
  /\ SubmitLatex(1)
  /\ sverify'[1] = sverify[1]
  /\ slatex'[1] = "success" => Published("latex")

\* Redis and Docker answer the worker of job j: no step of it takes an
\* exception branch
Healthy(j) ==
  /\ wpc'[j] # "raised"
  /\ waited'[j] \in {"no", "ok"}
  /\ wpc[j] = "set_final" => wpc'[j] = "expire_final"
  /\ wpc[j] = "expire_final" => wpc'[j] = "callback"

NextOrder ==
  /\ UNCHANGED <<validatorVars, taskVars, queryVars, keyVars, blobVars>>
  /\ \/ SubmitEnqueue(1) /\ iproject'[1] = Base /\ UNCHANGED <<workerVars, handlerVars>>
     \/ /\ spc[1] = "verification" /\ ~Published("verification")
        /\ VerifyDelay
        /\ UNCHANGED <<indexVars, handlerVars, submitVars>>
     \/ (\E j \in OrderJobs : VerifySet(j)) /\ UNCHANGED <<indexVars, handlerVars, submitVars>>
     \/ (\E j \in OrderJobs : VerifyExpire(j)) /\ UNCHANGED <<indexVars, handlerVars, submitVars>>
     \/ OrderSubmitVerification /\ UNCHANGED <<workerVars, indexVars, handlerVars>>
     \/ /\ spc[1] = "latex" /\ ~Published("latex")
        /\ LatexDelay
        /\ UNCHANGED <<indexVars, handlerVars, submitVars>>
     \/ OrderSubmitLatex /\ UNCHANGED <<workerVars, indexVars, handlerVars>>
     \/ SubmitRespond(1) /\ UNCHANGED <<workerVars, indexVars, handlerVars>>
     \/ IndexClone(1) /\ UNCHANGED <<workerVars, handlerVars, submitVars>>
     \/ IndexParse(1) /\ UNCHANGED <<workerVars, handlerVars, submitVars>>
     \/ IndexMergeRoot(1) /\ UNCHANGED <<workerVars, handlerVars, submitVars>>
     \/ IndexMergeDep(1) /\ UNCHANGED <<workerVars, handlerVars, submitVars>>
     \/ IndexSucceed(1) /\ UNCHANGED <<workerVars, handlerVars, submitVars>>
     \/ \E j \in OrderJobs :
          /\ \/ WorkerStart(j) /\ UNCHANGED <<indexVars, handlerVars>>
             \/ WorkerSetRunning(j) /\ UNCHANGED <<indexVars, handlerVars>>
             \/ WorkerExpireRunning(j) /\ UNCHANGED <<indexVars, handlerVars>>
             \/ WorkerSpawn(j) /\ UNCHANGED <<indexVars, handlerVars>>
             \/ WorkerWait(j) /\ UNCHANGED <<indexVars, handlerVars>>
             \/ WorkerLogs(j) /\ UNCHANGED <<indexVars, handlerVars>>
             \/ WorkerSetFinal(j) /\ UNCHANGED <<indexVars, handlerVars>>
             \/ WorkerExpireFinal(j) /\ UNCHANGED <<indexVars, handlerVars>>
             \/ OrderCallback(j)
             \/ WorkerRemove(j) /\ UNCHANGED <<indexVars, handlerVars>>
          /\ Healthy(j)
          /\ UNCHANGED submitVars

SpecOrder == InitOrder /\ [][NextOrder]_vars

\* The two submitting requests with a broker that may refuse or lose a
\* publish, the verification worker and the status request
NextPublish ==
  /\ UNCHANGED <<validatorVars, handlerVars, taskVars, queryVars, keyVars, blobVars>>
  /\ \/ VerifyDelay /\ UNCHANGED <<indexVars, submitVars>>
     \/ VerifyDelayRaises /\ UNCHANGED <<indexVars, submitVars>>
     \/ VerifyDelayLost /\ UNCHANGED <<indexVars, submitVars>>
     \/ (\E j \in Jobs : VerifySet(j)) /\ UNCHANGED <<indexVars, submitVars>>
     \/ (\E j \in Jobs : VerifyExpire(j)) /\ UNCHANGED <<indexVars, submitVars>>
     \/ GetStatus /\ UNCHANGED <<indexVars, submitVars>>
     \/ (\E j \in Jobs : WorkerStart(j)) /\ UNCHANGED <<indexVars, submitVars>>
     \/ (\E j \in Jobs : WorkerSetRunning(j)) /\ UNCHANGED <<indexVars, submitVars>>
     \/ (\E j \in Jobs : WorkerExpireRunning(j)) /\ UNCHANGED <<indexVars, submitVars>>
     \/ (\E j \in Jobs : WorkerSpawn(j)) /\ UNCHANGED <<indexVars, submitVars>>
     \/ (\E j \in Jobs : WorkerWait(j)) /\ UNCHANGED <<indexVars, submitVars>>
     \/ (\E j \in Jobs : WorkerLogs(j)) /\ UNCHANGED <<indexVars, submitVars>>
     \/ (\E j \in Jobs : WorkerSetFinal(j)) /\ UNCHANGED <<indexVars, submitVars>>
     \/ (\E j \in Jobs : WorkerExpireFinal(j)) /\ UNCHANGED <<indexVars, submitVars>>
     \/ (\E j \in Jobs : WorkerCallback(j)) /\ UNCHANGED <<indexVars, submitVars>>
     \/ (\E j \in Jobs : WorkerRemove(j)) /\ UNCHANGED <<indexVars, submitVars>>
     \/ (\E j \in GraphJobs : SubmitEnqueue(j)) /\ UNCHANGED workerVars
     \/ (\E j \in GraphJobs : SubmitVerification(j)) /\ UNCHANGED <<workerVars, indexVars>>
     \/ (\E j \in GraphJobs : SubmitLatex(j)) /\ UNCHANGED <<workerVars, indexVars>>
     \/ (\E j \in GraphJobs : SubmitRespond(j)) /\ UNCHANGED <<workerVars, indexVars>>
     \/ (\E j \in GraphJobs : IndexClone(j)) /\ UNCHANGED <<workerVars, submitVars>>

SpecPublish == Init /\ [][NextPublish]_vars

\* The workers under at-least-once delivery
NextRedeliver ==
  \/ NextWorker
  \/ /\ \E j \in Jobs : Redeliver(j)
     /\ UNCHANGED <<validatorVars, indexVars, handlerVars, taskVars, queryVars,
                    submitVars, keyVars, blobVars>>

SpecRedeliver == Init /\ [][NextRedeliver]_vars

\* ------------------------------------------------------------------------
\* Two subjects on one verification service: POST /run and POST /status
\* ------------------------------------------------------------------------
\* repo_url and commit_hash are `str` fields without a validator: any
\* string, here the non-empty ones over two characters
Chars == {"a", ":"}
Strings == UNION {[1..n -> Chars] : n \in 1..MaxStrLen}
Subjects == [repo_url : Strings, commit_hash : Strings]
SubjectIds == {1, 2}

SubjectKey(subject) == FormatKey("verification", subject.repo_url, subject.commit_hash)

KeyNotFound == [status |-> "not_found", task_id |-> NoTask]

InitKeys ==
  /\ WorkerInit /\ ValidatorIdle /\ IndexIdle /\ HandlersIdle /\ TasksIdle /\ NoQuery
  /\ SubmitIdle /\ BlobIdle
  /\ ksubject \in [SubjectIds -> Subjects]
  /\ kjobs = <<>>
  /\ kstore = {}
  /\ kpoll = [i \in SubjectIds |-> KeyNotFound]

\* SET key value on the store of entries
KeySet(entries, key, status, task_id) ==
  {e \in entries : e.key # key} \cup {[key |-> key, status |-> status, task_id |-> task_id]}

\* verify() for subject i: the task gets a fresh id and the 'queued' entry
\* is written under redis_key()
KeyRun(i) ==
  /\ Len(kjobs) < MaxKeyJobs
  /\ kjobs' = Append(kjobs, ksubject[i])
  /\ kstore' = KeySet(kstore, SubjectKey(ksubject[i]), "queued", Len(kjobs) + 1)
  /\ UNCHANGED <<ksubject, kpoll>>

\* get_status() for subject i: the entry under redis_key(), or not_found
KeyStatus(i) ==
  /\ kpoll' = [kpoll EXCEPT ![i] =
                 IF \E e \in kstore : e.key = SubjectKey(ksubject[i])
                 THEN LET e == CHOOSE e \in kstore : e.key = SubjectKey(ksubject[i])
                      IN [status |-> e.status, task_id |-> e.task_id]
                 ELSE KeyNotFound]
  /\ UNCHANGED <<ksubject, kjobs, kstore>>

NextKeys ==
  /\ UNCHANGED <<workerVars, validatorVars, indexVars, handlerVars, taskVars, queryVars,
                 submitVars, blobVars>>
  /\ \/ \E i \in SubjectIds : KeyRun(i)
     \/ \E i \in SubjectIds : KeyStatus(i)

SpecKeys == InitKeys /\ [][NextKeys]_vars

\* ------------------------------------------------------------------------
\* The task containers: verification-task and latex-task
\* ------------------------------------------------------------------------
\* Strings of the environment and of JSON documents, as sequences of tokens
EmptyString == <<>>

\* environment={"URL": task_data.repo_url, "COMMIT_HASH": task_data.commit_hash}
WorkerEnvironment(repo_url, commit_hash) ==
  [URL |-> <<repo_url>>, COMMIT_HASH |-> <<commit_hash>>]

\* os.environ.get(name, "")
EnvironGet(environ, name) == IF name \in DOMAIN environ THEN environ[name] ELSE EmptyString

\* json.loads of an environment string: a document with repo_url and
\* commit_hash, or json.JSONDecodeError
json_loads(str) ==
  IF Len(str) = 6 /\ str[1] = "{" /\ str[2] = "repo_url" /\ str[4] = "commit_hash" /\ str[6] = "}"
  THEN [raised |-> FALSE, repo_url |-> <<str[3]>>, commit_hash |-> <<str[5]>>]
  ELSE [raised |-> TRUE, repo_url |-> EmptyString, commit_hash |-> EmptyString]

\* What the repository at the requested commit is like: whether git clone and
\* checkout succeed, math-dependencies.json is valid, `lake build` succeeds,
\* pdflatex succeeds, and the bytes of the compiled main.pdf
Artifacts == [clones : BOOLEAN, deps_valid : BOOLEAN, builds : BOOLEAN, compiles : BOOLEAN,
              pdf : PdfBytes]

\* verification-task main(): the exit code of the process
verification_task_main(environ, art) ==
  LET task_data_str == EnvironGet(environ, "TASK_DATA")
      task_data == json_loads(task_data_str)
  IN IF task_data_str = EmptyString THEN 1
     ELSE IF task_data.raised THEN 0
     ELSE IF task_data.repo_url = EmptyString \/ task_data.commit_hash = EmptyString THEN 1
     ELSE IF ~art.clones THEN 1
     ELSE IF ~art.deps_valid THEN 1
     ELSE IF art.builds THEN 0 ELSE 1

\* The fields a PUT /pdf body must have (PDFUpdateRequest); FastAPI answers
\* 422 to a body that lacks one, before update_pdf runs
PDFUpdateRequest == {"git_url", "commit_hash", "pdf_data"}

put_pdf(files, body) ==
  IF PDFUpdateRequest \subseteq DOMAIN body
  THEN UpdateFile(files, body.git_url, body.commit_hash, body.pdf_data)
  ELSE [files |-> files, status_code |-> 422, content |-> ErrorContent]

\* The body latex-task sends: json={"repo_url": ..., "commit_hash": ...,
\* "pdf-data": base64 of main.pdf}
UploadBody(repo_url, commit_hash, pdf) ==
  [repo_url |-> repo_url, commit_hash |-> commit_hash] @@ ("pdf-data" :> b64encode(pdf))

\* latex-task main(): the exit code of the process, the files of the
\* pdf-service after it, and the status code of its upload (0: none sent)
latex_task_main(environ, art, files) ==
  LET repo_url == EnvironGet(environ, "URL")
      commit_hash == EnvironGet(environ, "COMMIT_HASH")
  IN IF repo_url = EmptyString \/ commit_hash = EmptyString \/ ~art.clones \/ ~art.compiles
     THEN [exit_code |-> 1, files |-> files, upload |-> 0]
     ELSE LET upload_result == put_pdf(files, UploadBody(repo_url[1], commit_hash[1], art.pdf))
          IN [exit_code |-> IF upload_result.status_code = 201 THEN 0 ELSE 1,
              files |-> upload_result.files,
              upload |-> upload_result.status_code]

\* container.wait() of job j, the container running the task's main() with
\* the environment the worker gave it
ContainerWait(j) ==
  LET environ == WorkerEnvironment(RepoUrl, CommitHash)
      run == latex_task_main(environ, artifact, pfiles)
  IN /\ WorkerWait(j)
     /\ IF kind[j] = "verification"
        THEN /\ waited'[j] = "ok" => reported'[j] = verification_task_main(environ, artifact)
             /\ UNCHANGED blobVars
        ELSE /\ waited'[j] = "ok" => reported'[j] = run.exit_code
             /\ pfiles' = run.files
             /\ lupload' = Append(lupload, run.upload)
             /\ UNCHANGED <<presp, artifact>>

InitContainers ==
  /\ WorkerInit /\ ValidatorIdle /\ IndexIdle /\ HandlersIdle /\ TasksIdle /\ NoQuery
  /\ SubmitIdle /\ KeysIdle
  /\ pfiles = [path \in PdfPaths |-> NoFile]
  /\ presp = NoPdfResponse
  /\ artifact \in Artifacts
  /\ lupload = <<>>

\* One job of either service with its container, beside a client of the
\* pdf-service that creates and reads the PDF of the same artifact
NextContainers ==
  /\ UNCHANGED <<validatorVars, indexVars, handlerVars, taskVars, queryVars, submitVars,
                 keyVars>>
  /\ \/ VerifyDelay /\ UNCHANGED blobVars
     \/ LatexDelay /\ UNCHANGED blobVars
     \/ (\E j \in Jobs : VerifySet(j)) /\ UNCHANGED blobVars
     \/ (\E j \in Jobs : VerifyExpire(j)) /\ UNCHANGED blobVars
     \/ (\E j \in Jobs : WorkerStart(j)) /\ UNCHANGED blobVars
     \/ (\E j \in Jobs : WorkerSetRunning(j)) /\ UNCHANGED blobVars
     \/ (\E j \in Jobs : WorkerExpireRunning(j)) /\ UNCHANGED blobVars
     \/ (\E j \in Jobs : WorkerSpawn(j)) /\ UNCHANGED blobVars
     \/ \E j \in Jobs : ContainerWait(j)
     \/ (\E j \in Jobs : WorkerLogs(j)) /\ UNCHANGED blobVars
     \/ (\E j \in Jobs : WorkerSetFinal(j)) /\ UNCHANGED blobVars
     \/ (\E j \in Jobs : WorkerExpireFinal(j)) /\ UNCHANGED blobVars
     \/ (\E j \in Jobs : WorkerCallback(j)) /\ UNCHANGED blobVars
     \/ (\E j \in Jobs : WorkerRemove(j)) /\ UNCHANGED blobVars
     \/ (\E d \in PdfData : create_pdf(RepoUrl, CommitHash, d)) /\ UNCHANGED workerVars
     \/ read_pdf(RepoUrl, CommitHash) /\ UNCHANGED workerVars

SpecContainers == InitContainers /\ [][NextContainers]_vars

\* Clients of the pdf-service, one request at a time
NextPdf ==
  /\ UNCHANGED <<workerVars, validatorVars, indexVars, handlerVars, taskVars, queryVars,
                 submitVars, keyVars>>
  /\ \E k \in PdfKeys :
       \/ \E d \in PdfData : create_pdf(k.git_url, k.commit_hash, d)
       \/ read_pdf(k.git_url, k.commit_hash)
       \/ \E d \in PdfData : update_pdf(k.git_url, k.commit_hash, d)
       \/ delete_pdf(k.git_url, k.commit_hash)

SpecPdf == Init /\ [][NextPdf]_vars

\* ------------------------------------------------------------------------
\* Properties of the status protocol and the workers
\* ------------------------------------------------------------------------
Rank(status) == CASE status = "queued" -> 0
                  [] status = "running" -> 1
                  [] OTHER -> 2

\* C1: two successive answers of get_status that name the same job never move
\* backward in queued -> running -> {success, fail}, and a terminal answer is
\* never followed by a different status of that job.
C1_MonotonicStatus ==
  [][(/\ poll.status \in TaskStatus
      /\ poll'.status \in TaskStatus
      /\ poll'.task_id = poll.task_id)
     => (/\ Rank(poll'.status) >= Rank(poll.status)
         /\ (poll.status \in Terminal => poll'.status = poll.status))]_vars

\* C2: once get_status would answer success or fail for the verification
\* subject, after every further step it answers the same value and job id, or
\* not_found.
C2_TerminalIsFinal ==
  [][StatusResponse(store[VerificationKey]).status \in Terminal
     => (\/ StatusResponse(store'[VerificationKey]) = StatusResponse(store[VerificationKey])
         \/ StatusResponse(store'[VerificationKey]) = NotFound)]_vars

\* C3: when POST /run answered 202 for a job and the worker has finished it
\* (having stored its terminal value), the entry of that job is not left at
\* queued or running.
C3_FinishedJobIsTerminal ==
  \A j \in Jobs :
    (/\ kind[j] = "verification"
     /\ hpc[j] = "accepted"
     /\ wpc[j] = "done"
     /\ written[j] \in Terminal
     /\ StatusResponse(store[VerificationKey]).task_id = j)
    => StatusResponse(store[VerificationKey]).status \in Terminal

C5_SuccessIffExitZero ==
  \A j \in Jobs :
    (written[j] # "none" /\ wpc[j] \in {"expire_final", "callback", "remove"})
    => /\ (written[j] = "success") <=> (cvar[j] /\ waited[j] = "ok" /\ reported[j] = 0)
       /\ written[j] \in Terminal
       /\ cbFlag[j] # "none" => ((cbFlag[j] = "true") <=> (written[j] = "success"))

\* C5 witness: a worker stored success and sent has_valid_status = true.
C5_Witness ==
  \E j \in Jobs : wpc[j] = "remove" /\ written[j] = "success" /\ cbFlag[j] = "true"

C7_EveryEntryExpires ==
  \A k \in RedisKeys : store[k].raw # "absent" => store[k].ttl # NoTTL

\* C8: a get_status call that finds undecodable content leaves the key absent
\* from the status store.
C8_SelfHeal ==
  [][(poll'.decode_error /\ ~poll.decode_error)
     => store'[VerificationKey] = NoEntry]_vars

\* ------------------------------------------------------------------------
\* Properties of the manifest validator
\* ------------------------------------------------------------------------
\* A declared entry passes when it names a git URL and a commit and the
\* lockfile pins that URL to that very commit
Passes(dep, lock) == dep.git \in Urls /\ dep.commit \in Revs /\ lock[dep.git] = dep.commit

FailingIndices(declared, lock) == {i \in 1..Len(declared) : ~Passes(declared[i], lock)}

\* The first failing check, in the order git, commit, lockfile, revision
FirstFailingCheck(dep, lock) ==
  CASE dep.git = None -> "missing_git"
    [] dep.git # None /\ dep.commit = None -> "missing_commit"
    [] dep.git # None /\ dep.commit # None /\ lock[dep.git] = None -> "not_in_lakefile"
    [] OTHER -> "commit_mismatch"

\* C9: the validator records exactly one error per failing entry, in the
\* order of the declared list, each naming its entry and the first check that
\* entry fails; entries after a failing one are still examined.
C9_OneErrorPerFailingEntry ==
  v_result.ran =>
    LET lock == lakefile_deps(v_requires)
        failing == FailingIndices(v_declared, lock)
        errors == v_result.validation_errors
    IN /\ Len(errors) = Cardinality(failing)
       /\ \A i \in failing :
            LET k == Cardinality({i2 \in failing : i2 <= i})
            IN errors[k] = [error |-> FirstFailingCheck(v_declared[i], lock),
                            git |-> v_declared[i].git,
                            commit |-> v_declared[i].commit]

\* C9 witness: lockfile {A: r1}, declared [{A, r1}, {B, r2}] gave exactly one
\* error, "B not found in lockfile".
C9_Witness ==
  /\ v_result.ran
  /\ v_requires = <<[git |-> "A", rev |-> "r1"]>>
  /\ v_declared = <<[git |-> "A", commit |-> "r1"], [git |-> "B", commit |-> "r2"]>>
  /\ v_result.validation_errors
       = <<[error |-> "not_in_lakefile", git |-> "B", commit |-> "r2"]>>

\* C11: when no declared entry fails, the validator does not raise and returns
\* exactly the declared list: the same (git, commit) pairs, in the same order,
\* duplicates kept.
C11_OutputIsDeclaredList ==
  (v_result.ran /\ FailingIndices(v_declared, lakefile_deps(v_requires)) = {})
  => (/\ ~v_result.raised
      /\ v_result.validation_errors = <<>>
      /\ Len(v_result.dependencies) = Len(v_declared)
      /\ \A i \in 1..Len(v_declared) :
           /\ v_result.dependencies[i].git = v_declared[i].git
           /\ v_result.dependencies[i].commit = v_declared[i].commit)

\* C11 witness: the declared list names A@r1 twice, the lockfile pins A and B;
\* the output is the declared list with both copies and without B.
C11_Witness ==
  /\ v_result.ran
  /\ v_requires = <<[git |-> "A", rev |-> "r1"], [git |-> "B", rev |-> "r2"]>>
  /\ v_declared = <<[git |-> "A", commit |-> "r1"], [git |-> "A", commit |-> "r1"]>>
  /\ v_result.dependencies = v_declared

\* The [[require]] list with one more table put at position pos + 1
InsertAt(requires, pos, req) ==
  SubSeq(requires, 1, pos) \o <<req>> \o SubSeq(requires, pos + 1, Len(requires))

DeclaredGits(declared) == {declared[i].git : i \in 1..Len(declared)}

\* C12: a [[require]] table for a URL that no declared entry names, added at
\* any place of the lockfile, leaves the validator's result as it is (same
\* errors, same output), and every entry of the output is a declared entry.
C12_LockfileOnlyIgnored ==
  v_result.ran =>
    /\ \A req \in RequireEntries : \A pos \in 0..Len(v_requires) :
         req.git \notin DeclaredGits(v_declared)
         => Ran(parse_dependencies_from_repo(InsertAt(v_requires, pos, req), v_declared))
            = v_result
    /\ \A i \in 1..Len(v_result.dependencies) :
         v_result.dependencies[i].git \in DeclaredGits(v_declared)

\* C12 witness: the lockfile pins A and B, only A is declared; the output is
\* the one declared entry and B is not in it.
C12_Witness ==
  /\ v_result.ran
  /\ v_requires = <<[git |-> "A", rev |-> "r1"], [git |-> "B", rev |-> "r2"]>>
  /\ v_declared = <<[git |-> "A", commit |-> "r1"]>>
  /\ v_result.dependencies = <<[git |-> "A", commit |-> "r1"]>>
  /\ ~v_result.raised

\* ------------------------------------------------------------------------
\* Properties of the index job
\* ------------------------------------------------------------------------
\* C10: an index job whose manifest has at least one failing entry gets no
\* dependency list, ends in failure and never runs a statement that writes to
\* the graph, also when other entries of the manifest passed.
C10_AllOrNothing ==
  \A j \in IJobs :
    ihasErrors[j] => (ipc[j] = "failed" /\ ideps[j] = <<>> /\ ~iwrote[j])

\* C10 witness: a job failed on a manifest with one failing and one passing
\* entry, and the graph holds no node and no edge.
C10_Witness ==
  \E j \in IJobs :
    /\ ihasErrors[j]
    /\ ipassed[j] # <<>>
    /\ ipc[j] = "failed"
    /\ nodes = {}
    /\ edges = EmptyBag

\* ------------------------------------------------------------------------
\* Properties of the project graph
\* ------------------------------------------------------------------------
\* C13: with every upsert done one after the other (each MERGE statement and
\* each request in one step), no (repo_url, commit) is carried by more than
\* one Project node.
C13_OneNodePerKey ==
  \A k \in ProjectKeys : Cardinality(Matching(nodes, k.repo_url, k.commit)) <= 1

NodesWithKey(ns, k) == Matching(ns, k.repo_url, k.commit)

InSeq(x, seq) == \E i \in 1..Len(seq) : seq[i] = x

\* C14: when a dependency-task process, or an internal_add_project request
\* that does not name its source among its dependencies, commits its upsert
\* of a (repo_url, commit) that at most one node carried, still at most one
\* node carries it - whatever the other processes committed since the caller
\* looked the key up.
C14_ConcurrentUpsertKeepsOneNode ==
  [][/\ \A t \in Tasks :
          (/\ tpc[t] = "commit"
           /\ tpc'[t] = "done"
           /\ Cardinality(NodesWithKey(nodes, troot[t])) <= 1)
          => Cardinality(NodesWithKey(nodes', troot[t])) <= 1
     /\ (/\ hreq.open
         /\ ~hreq'.open
         /\ ~InSeq(hreq.source, hreq.dependencies)
         /\ Cardinality(NodesWithKey(nodes, hreq.source)) <= 1)
        => Cardinality(NodesWithKey(nodes', hreq.source)) <= 1]_vars

\* The relationships from a node with key s to a node with key d
EdgesBetween(ns, es, s, d) ==
  {e \in BagToSet(es) : /\ \E p \in NodesWithKey(ns, s) : p.id = e[1]
                         /\ \E q \in NodesWithKey(ns, d) : q.id = e[2]}

\* The (repo_url, commit) of the node with an id
KeyOf(ns, id) == LET n == CHOOSE n \in ns : n.id = id IN Key(n.repo_url, n.commit)

AtMostOneEdge(ns, es) ==
  \A e \in BagToSet(es) :
    /\ CopiesIn(e, es) = 1
    /\ \A f \in BagToSet(es) :
         (KeyOf(ns, f[1]) = KeyOf(ns, e[1]) /\ KeyOf(ns, f[2]) = KeyOf(ns, e[2]))
         => f = e

\* C15: after every step of the index jobs and the connect-dependency
\* requests there is at most one DEPENDS_ON relationship from one
\* (repo_url, commit) to another; a connect-dependency request, or a
\* dependency MERGE of an index job, for a relationship that exists leaves
\* nodes and relationships as they were.
C15_OneEdgePerPair ==
  [][/\ AtMostOneEdge(nodes', edges')
     /\ \A s \in RequestKeys, d \in RequestKeys :
          (add_dependency(s, d) /\ EdgesBetween(nodes, edges, s, d) # {})
          => (nodes' = nodes /\ edges' = edges)
     /\ \A j \in GraphJobs :
          (/\ IndexMergeDep(j)
           /\ EdgesBetween(nodes, edges, iproject[j],
                            Key(Head(ideps[j]).git, Head(ideps[j]).commit)) # {})
          => (nodes' = nodes /\ edges' = edges)]_vars

\* C15 witness: an index job of (B, r2) merged the relationship to its
\* dependency (A, r1), a connect-dependency request was answered 201 and the
\* graph holds that one relationship once.
C15_Witness ==
  /\ ipc[1] = "success"
  /\ iproject[1] = Key("B", "r2")
  /\ ipassed[1] = <<Dep("A", "r1")>>
  /\ resp = [op |-> "dependencies", status |-> 201]
  /\ Cardinality(nodes) = 2
  /\ BagToSet(edges) = {<<1, 2>>}
  /\ CopiesIn(<<1, 2>>, edges) = 1

\* C16: a connect-dependency request whose source or whose destination is
\* carried by no node is answered 404 and leaves the graph as it was: no
\* relationship and no node is created.
C16_ConnectMissingIsNotFound ==
  [][\A s \in RequestKeys, d \in RequestKeys :
       (/\ add_dependency(s, d)
        /\ (NodesWithKey(nodes, s) = {} \/ NodesWithKey(nodes, d) = {}))
       => (/\ resp'.status = 404
           /\ nodes' = nodes
           /\ edges' = edges
           /\ nextNode' = nextNode)]_vars

\* C16 witness: the graph holds the node of (A, r1) alone, a
\* connect-dependency request (which names (B, r2) at one end at least) was
\* answered 404 and there is still one node and no relationship.
C16_Witness ==
  /\ resp = [op |-> "dependencies", status |-> 404]
  /\ reqCount = 1
  /\ Cardinality(nodes) = 1
  /\ NodesWithKey(nodes, Key("A", "r1")) # {}
  /\ \A n \in nodes : n.last_indexed
  /\ edges = EmptyBag

\* C17: an update-flag request (verification_status or paper_status) for a
\* (repo_url, commit) that no node carries is answered 404 and changes
\* nothing: no node is created, no flag of any node and no relationship is
\* modified.
C17_UpdateMissingIsNotFound ==
  [][\A k \in RequestKeys, b \in BOOLEAN :
       (/\ \/ internal_update_verification_status(k, b)
           \/ internal_update_paper_status(k, b)
        /\ NodesWithKey(nodes, k) = {})
       => (/\ resp'.status = 404
           /\ nodes' = nodes
           /\ edges' = edges
           /\ nextNode' = nextNode)]_vars

\* C17 witness: the graph holds the node of (A, r1) alone, created by
\* internal_add_project with its dependencies flag set; the next request, a
\* paper_status callback, was answered 404 and the node is as it was created.
C17_Witness ==
  /\ resp = [op |-> "paper_status", status |-> 404]
  /\ reqCount = 2
  /\ nodes = {[id |-> 1, repo_url |-> "A", commit |-> "r1",
               has_valid_dependencies |-> "valid", has_valid_proof |-> "unknown",
               has_valid_paper |-> "unknown", last_indexed |-> FALSE]}
  /\ edges = EmptyBag

\* A node of the next state whose flag differs from the valid/invalid value
\* it holds now
FlagReplaced(flag) ==
  {m \in nodes' : \E n \in nodes : /\ n.id = m.id
                                   /\ n[flag] \in {"valid", "invalid"}
                                   /\ m[flag] # n[flag]}

\* C18: an update-flag request for a (repo_url, commit) that one node carries
\* is answered 200 and leaves the addressed flag at the asserted value,
\* whatever it was; and a flag that holds valid or invalid changes only in
\* the step of an update-flag request for that flag and node, to the value
\* the request asserts - so the value stored is that of the last callback
\* committed.
C18_LastCallbackWins ==
  [][/\ \A k \in RequestKeys, b \in BOOLEAN :
          /\ (/\ internal_update_verification_status(k, b)
               /\ Cardinality(NodesWithKey(nodes, k)) = 1)
              => (/\ resp'.status = 200
                  /\ \A n \in NodesWithKey(nodes', k) :
                       n.has_valid_proof = FlagValue(b))
          /\ (/\ internal_update_paper_status(k, b)
               /\ Cardinality(NodesWithKey(nodes, k)) = 1)
              => (/\ resp'.status = 200
                  /\ \A n \in NodesWithKey(nodes', k) :
                       n.has_valid_paper = FlagValue(b))
     /\ \A m \in FlagReplaced("has_valid_proof") :
          \E b \in BOOLEAN :
            /\ internal_update_verification_status(Key(m.repo_url, m.commit), b)
            /\ m.has_valid_proof = FlagValue(b)
     /\ \A m \in FlagReplaced("has_valid_paper") :
          \E b \in BOOLEAN :
            /\ internal_update_paper_status(Key(m.repo_url, m.commit), b)
            /\ m.has_valid_paper = FlagValue(b)]_vars

\* Every node keeps its identity and every property but the one flag
OnlyFlagChanged(flag) ==
  /\ {n.id : n \in nodes'} = {n.id : n \in nodes}
  /\ \A n \in nodes, m \in nodes' :
       m.id = n.id => [m EXCEPT ![flag] = n[flag]] = n
  /\ edges' = edges

\* C19: an update-flag request changes nothing but the flag it addresses:
\* the other two flags of every node, the nodes' identities and the
\* relationships are as before.
C19_FlagsIndependent ==
  [][\A k \in RequestKeys, b \in BOOLEAN :
       /\ internal_update_verification_status(k, b)
          => OnlyFlagChanged("has_valid_proof")
       /\ internal_update_paper_status(k, b)
          => OnlyFlagChanged("has_valid_paper")]_vars

\* C20: each of the three flags of every Project node holds one of unknown,
\* valid, invalid, and as long as the service has served no request (every
\* node is as its index job created it) all three hold unknown.
C20_FlagsAreTernary ==
  \A n \in nodes :
    /\ n.has_valid_dependencies \in ternary_choices
    /\ n.has_valid_proof \in ternary_choices
    /\ n.has_valid_paper \in ternary_choices
    /\ reqCount = 0
       => (/\ n.has_valid_dependencies = "unknown"
           /\ n.has_valid_proof = "unknown"
           /\ n.has_valid_paper = "unknown")

\* ------------------------------------------------------------------------
\* Properties of indexing and the dependency listings
\* ------------------------------------------------------------------------
\* C21: an index job that passed validation leaves, for every validated
\* dependency, a node carrying the dependency's key and a DEPENDS_ON edge from
\* the indexed project to it; a dependency that was not in the graph is
\* created by the job's own MERGE, whether or not it was ever indexed itself.
Linked(ns, es, p, dep) ==
  /\ Matching(ns, dep.git, dep.commit) # {}
  /\ \A s \in Matching(ns, p.repo_url, p.commit), d \in Matching(ns, dep.git, dep.commit) :
       BagIn(<<s.id, d.id>>, es)

C21_DependenciesCreatedOnReference ==
  [][\A j \in IJobs :
       /\ (ipc'[j] = "success") =>
            /\ Matching(nodes', iproject'[j].repo_url, iproject'[j].commit) # {}
            /\ \A i \in 1..Len(ipassed'[j]) :
                 Linked(nodes', edges', iproject'[j], ipassed'[j][i])
       /\ (IndexMergeDep(j) /\ Matching(nodes, Head(ideps[j]).git, Head(ideps[j]).commit) = {}) =>
            /\ Cardinality(nodes') = Cardinality(nodes) + 1
            /\ Linked(nodes', edges', iproject[j], Head(ideps[j]))]_vars

\* A job succeeded with a dependency whose node was never indexed as a root
C21_Witness ==
  \E j \in IJobs :
    /\ ipc[j] = "success"
    /\ ipassed[j] # <<>>
    /\ \E i \in 1..Len(ipassed[j]) :
         /\ Key(ipassed[j][i].git, ipassed[j][i].commit) # Key(iproject[j].repo_url, iproject[j].commit)
         /\ \A d \in Matching(nodes, ipassed[j][i].git, ipassed[j][i].commit) : ~d.last_indexed
         /\ Matching(nodes, ipassed[j][i].git, ipassed[j][i].commit) # {}

\* The keys a key depends on directly: some node with the first key has a
\* DEPENDS_ON edge to some node with the second
DependsOn(ns, es) == {<<KeyOf(ns, e[1]), KeyOf(ns, e[2])>> : e \in BagToSet(es)}

\* Keys at the end of a path of one or more edges that starts at the key
RECURSIVE Closure(_, _)
Closure(rel, seen) ==
  LET more == seen \cup {p[2] : p \in {q \in rel : q[1] \in seen}}
  IN IF more = seen THEN seen ELSE Closure(rel, more)

TransitiveDependencies(ns, es, root) ==
  Closure(DependsOn(ns, es), {p[2] : p \in {q \in DependsOn(ns, es) : q[1] = root}})

\* The artifacts a transitive listing names
ListedKeys(l) == {Key(r.entry.repo_url, r.entry.commit) : r \in l.entries}

\* C22: the transitive listing answers with exactly the artifacts reachable
\* from the queried root along DEPENDS_ON edges, the root itself excluded.
C22_TransitiveExcludesRoot ==
  [][\A k \in ListingKeys :
       get_project_dependencies_fastapi(k) =>
         /\ listing'.status = 200
         /\ ListedKeys(listing') = TransitiveDependencies(nodes, edges, k) \ {k}]_vars

\* C23: the transitive listing is answered, and names every artifact at most
\* once, whatever the number of paths to it and whether or not the graph has
\* a cycle.
C23_ListedAtMostOnce ==
  [][\A k \in ListingKeys :
       get_project_dependencies_fastapi(k) =>
         /\ listing'.status = 200
         /\ \A r \in listing'.entries :
              /\ r.copies = 1
              /\ \A q \in listing'.entries :
                   Key(q.entry.repo_url, q.entry.commit) = Key(r.entry.repo_url, r.entry.commit)
                   => q = r]_vars

\* Number of DEPENDS_ON edges from a node with key s to a node with key d
EdgeCount(ns, es, s, d) ==
  BagCardinality([e \in {f \in BagToSet(es) : KeyOf(ns, f[1]) = s /\ KeyOf(ns, f[2]) = d}
                    |-> CopiesIn(e, es)])

\* Rank of a (repo_url, commit) pair in the lexicographic order of the pairs
LexRank(repo_url, commit) ==
  Cardinality({k \in ProjectKeys :
                 \/ StringRank(k.repo_url) < StringRank(repo_url)
                 \/ k.repo_url = repo_url /\ StringRank(k.commit) < StringRank(commit)})

\* C24: the direct listing answers with one row per outgoing DEPENDS_ON edge
\* of the queried project, each row naming the queried project as source and
\* the edge's target as dependency, in the order of (dependency repo_url,
\* commit); the list is empty when the project has no edge or does not exist.
C24_DirectListing ==
  [][\A k \in ListingKeys :
       get_project_dependencies_main(k.repo_url, k.commit) =>
         LET rows == listing'.rows
         IN /\ listing'.status = 200
            /\ \A i \in 1..Len(rows) :
                 /\ rows[i].source_repo = k.repo_url
                 /\ rows[i].source_commit = k.commit
            /\ \A d \in ProjectKeys :
                 Cardinality({i \in 1..Len(rows) :
                    Key(rows[i].dependency_repo, rows[i].dependency_commit) = d})
                 = EdgeCount(nodes, edges, k, d)
            /\ \A i \in 1..Len(rows), j \in 1..Len(rows) :
                 i < j => LexRank(rows[i].dependency_repo, rows[i].dependency_commit)
                          <= LexRank(rows[j].dependency_repo, rows[j].dependency_commit)]_vars

\* A direct listing answered with two rows whose order is not the order the
\* dependency nodes were created in, while a dependency has an edge further on
C24_Witness ==
  /\ listing.op = "direct"
  /\ Len(listing.rows) = 2
  /\ listing = DirectListing(nodes, edges, Advanced)
  /\ \E a \in Matching(nodes, "B", "r2"), b \in Matching(nodes, "A", "r1") :
       /\ a.id < b.id
       /\ BagIn(<<a.id, b.id>>, edges)

\* C25: once the index jobs for base (no dependencies), then algebra
\* (depends on base), then advanced (depends on base and algebra) have each
\* succeeded, the direct dependencies of advanced are base and algebra, those
\* of algebra are base, and the graph holds the three nodes and the three
\* edges of these artifacts and nothing else.
ScenarioSucceeded ==
  /\ \A j \in 1..3 : ipc[j] = "success" /\ iproject[j] = ScenarioRoots[j]
  /\ \A j \in ScenarioJobs : j > 3 => ipc[j] = "idle"
  /\ ipassed[1] = <<>>
  /\ ipassed[2] = <<Dep("A", "r1")>>
  /\ ipassed[3] = <<Dep("A", "r1"), Dep("B", "r2")>>

C25_EndToEnd ==
  ScenarioSucceeded =>
    /\ DirectListing(nodes, edges, Advanced).rows
         = <<DependencyInfo(Advanced, Base), DependencyInfo(Advanced, Algebra)>>
    /\ DirectListing(nodes, edges, Algebra).rows = <<DependencyInfo(Algebra, Base)>>
    /\ DirectListing(nodes, edges, Base).rows = <<>>
    /\ Cardinality(nodes) = 3
    /\ {Key(n.repo_url, n.commit) : n \in nodes} = {Base, Algebra, Advanced}
    /\ BagCardinality(edges) = 3
    /\ DependsOn(nodes, edges) = {<<Advanced, Base>>, <<Advanced, Algebra>>, <<Algebra, Base>>}

\* The three jobs succeeded and the direct listing of advanced was answered
C25_Witness ==
  /\ ScenarioSucceeded
  /\ listing.op = "direct"
  /\ listing = DirectListing(nodes, edges, Advanced)
  /\ Len(listing.rows) = 2

\* ------------------------------------------------------------------------
\* Properties of the creation request and of job submission
\* ------------------------------------------------------------------------
\* delay() of the index job returned a task id
EnqueueSucceeded(j) == ipc[j] \notin {"idle", "unpublished"}

\* C26: once the index job of a creation request is enqueued, the request
\* is never answered with an error, whatever the two follow-on requests
\* return: it can always take its next step, whatever the index job is doing;
\* when it is answered, the answer is 202 with the id of the index job and
\* status 'queued', and both follow-on requests were sent.
C26_QueuedWhateverFollowOns ==
  \A j \in IJobs :
    /\ spc[j] = "error500" => ~EnqueueSucceeded(j)
    /\ spc[j] \in {"verification", "latex", "respond", "done"} => EnqueueSucceeded(j)
    /\ spc[j] = "verification" => ENABLED SubmitVerification(j)
    /\ spc[j] = "latex" => ENABLED SubmitLatex(j)
    /\ spc[j] = "respond" => ENABLED SubmitRespond(j)
    /\ spc[j] \in {"latex", "respond", "done"} => sverify[j] \in FollowOnOutcomes
    /\ spc[j] \in {"respond", "done"} => slatex[j] \in FollowOnOutcomes
    /\ spc[j] = "done" =>
         sresp[j] = [status_code |-> 202, task_id |-> j, status |-> "queued"]

\* A request answered 'queued' while its index job has not started, after an
\* exception from the verification service and a non-success response from
\* the latex service
C26_Witness ==
  \E j \in IJobs :
    /\ spc[j] = "done"
    /\ sresp[j] = [status_code |-> 202, task_id |-> j, status |-> "queued"]
    /\ ipc[j] = "clone"
    /\ sverify[j] = "exception"
    /\ slatex[j] = "non_success"

\* A node of the graph carries a proof or paper verdict in `flag`
FlagSet(ns, key, flag) == \E n \in NodesWithKey(ns, key) : n[flag] \in {"valid", "invalid"}

\* C27: nothing orders the callback of the verification or latex job after the
\* index job of the same creation request: a callback handled while no node
\* of the artifact exists is answered 404 and leaves the graph as it was; the
\* worker sends its callback once and goes on to remove its container
\* whatever the answer; a proof or paper flag of the artifact is set only by
\* a callback that was answered 200.
C27_EarlyCallbackIsLost ==
  [][/\ (reqCount' = reqCount + 1 /\ NodesWithKey(nodes, iproject[1]) = {})
          => (resp'.status = 404 /\ nodes' = nodes /\ edges' = edges)
     /\ \A j \in DOMAIN wpc :
          wpc[j] = "callback"
            => \/ wpc'[j] = "callback" /\ cbCount'[j] = cbCount[j]
               \/ wpc'[j] = "remove" /\ cbCount'[j] = 1
     /\ \A flag \in {"has_valid_proof", "has_valid_paper"} :
          (FlagSet(nodes', iproject'[1], flag) /\ ~FlagSet(nodes, iproject[1], flag))
            => (reqCount' = reqCount + 1 /\ resp'.status = 200)]_vars

\* All three jobs of the creation request have finished, the verification
\* job with a verified proof; both callbacks were handled before the index
\* job wrote the node (neither set a flag; the last was answered 404); the
\* node of the artifact now exists and carries neither flag
C27_Witness ==
  /\ spc[1] = "done"
  /\ ipc[1] = "success"
  /\ \E v, l \in DOMAIN wpc :
       /\ kind[v] = "verification" /\ wpc[v] = "done" /\ written[v] = "success"
       /\ kind[l] = "latex" /\ wpc[l] = "done"
  /\ reqCount = 2
  /\ resp.status = 404
  /\ NodesWithKey(nodes, iproject[1]) # {}
  /\ ~FlagSet(nodes, iproject[1], "has_valid_proof")
  /\ ~FlagSet(nodes, iproject[1], "has_valid_paper")

\* The publish of verification task j did not put it on the queue
VerificationPublishFailed(j) ==
  \/ hpc[j] = "raised500"
  \/ hpc[j] # "idle" /\ j \notin queue /\ wpc[j] = "idle"

\* The publish of index job j did not put it on the queue
IndexPublishFailed(j) == ipc[j] \in {"unpublished", "lost"}

\* C28: a job whose publish failed is never reported as queued: verify()
\* neither writes a 'queued' entry for it nor answers 202, a status request
\* does not return it, and add_project does not answer 'queued' for it.
C28_PublishFailureSurfaced ==
  /\ \A j \in Jobs :
       VerificationPublishFailed(j)
         => /\ hpc[j] \notin {"set", "accepted"}
            /\ ~(store[VerificationKey].status = "queued" /\ store[VerificationKey].task_id = j)
            /\ ~(poll.status = "queued" /\ poll.task_id = j)
  /\ \A j \in IJobs : IndexPublishFailed(j) => sresp[j].status # "queued"

\* C29: the containers of two tasks never carry the same name, and a worker
\* that is about to start the container of its task finds the name free.
C29_ContainerNamesFree ==
  /\ \A i, j \in Jobs :
       i # j => ContainerName(kind[i], i) # ContainerName(kind[j], j)
  /\ \A j \in Jobs : wpc[j] = "spawn" => container[j] # "exists"

\* C30: tasks submitted for two different (repo_url, commit_hash) pairs are
\* recorded under different keys; the task id a status request returns for a
\* subject is that of a task submitted for this subject; and the status
\* requests of two different subjects never return the same task id.
C30_KeysInjective ==
  /\ \A x, y \in DOMAIN kjobs :
       kjobs[x] # kjobs[y] => SubjectKey(kjobs[x]) # SubjectKey(kjobs[y])
  /\ \A i \in SubjectIds :
       kpoll[i].task_id # NoTask => kjobs[kpoll[i].task_id] = ksubject[i]
  /\ \A a, b \in SubjectIds :
       (ksubject[a] # ksubject[b] /\ kpoll[a].task_id # NoTask /\ kpoll[b].task_id # NoTask)
         => kpoll[a].task_id # kpoll[b].task_id

\* ------------------------------------------------------------------------
\* Properties of the PDF store and the task containers
\* ------------------------------------------------------------------------
\* C31: the PDF store is a map from (git_url, commit_hash) to bytes: a request
\* touches only its own key; a read answers 200 with the stored bytes, or 404
\* when there are none; a create on an existing key answers 409 and changes
\* nothing, on a free key it stores the bytes; an update stores the bytes and
\* reports success with their size; a delete removes the bytes, or answers
\* 404 when there are none.
C31_StoreIsMap ==
  [][LET r == presp'
         path == get_pdf_path(r.git_url, r.commit_hash)
         before == pfiles[path]
         after == pfiles'[path]
     IN /\ \A q \in PdfPaths \ {path} : pfiles'[q] = pfiles[q]
        /\ r.op = "read" =>
             /\ after = before
             /\ IF before.exists
                THEN r.status_code = 200 /\ r.content = BytesContent(before.bytes)
                ELSE r.status_code = 404
        /\ r.op = "create" =>
             IF before.exists THEN r.status_code = 409 /\ after = before
             ELSE IF r.pdf_data.valid
             THEN r.status_code = 201 /\ after = File(r.pdf_data.bytes)
             ELSE r.status_code = 400 /\ after = before
        /\ r.op = "update" =>
             IF r.pdf_data.valid
             THEN /\ after = File(r.pdf_data.bytes)
                  /\ r.status_code \in 200..299
                  /\ r.content = SizeContent(r.pdf_data.bytes)
             ELSE r.status_code = 400 /\ after = before
        /\ r.op = "delete" =>
             IF before.exists THEN r.status_code = 200 /\ ~after.exists
             ELSE r.status_code = 404 /\ after = before]_vars

\* C32: when POST /projects has returned, a node of the project exists in the
\* graph, and a flag callback for the project that is handled from then on is
\* not answered 404.
C32_ProjectExistsOnReturn ==
  [][/\ spc'[1] = "done" => NodesWithKey(nodes', iproject'[1]) # {}
     /\ (spc[1] = "done" /\ reqCount' = reqCount + 1) => resp'.status # 404]_vars

\* C33: after an index job has finished, the dependencies flag of its
\* project tells the outcome: 'valid' after a job that validated and indexed
\* the manifest, 'invalid' after a job whose manifest failed validation.
C33_DependenciesFlagSet ==
  \A j \in IJobs :
    /\ ipc[j] = "success"
         => /\ NodesWithKey(nodes, iproject[j]) # {}
            /\ \A n \in NodesWithKey(nodes, iproject[j]) : n.has_valid_dependencies = "valid"
    /\ (ipc[j] = "failed" /\ ihasErrors[j])
         => \E n \in NodesWithKey(nodes, iproject[j]) : n.has_valid_dependencies = "invalid"

\* C34: index_dependencies_in_neo4j of the dependency task writes all or
\* nothing: when a dependency has no node in the graph the task fails and the
\* graph is as it was; when every dependency has one, the task ends with the
\* node of its project in the graph and a relationship from it to every
\* dependency; a task that fails has written nothing.
C34_TaskIndexAtomic ==
  [][\A t \in Tasks :
       /\ (/\ tpc[t] = "lookup"
           /\ \E i \in 1..Len(tdeps[t]) : get_or_none(nodes, tdeps[t][i]).outcome = "none")
            => (tpc'[t] = "lookup" \/ (tpc'[t] = "failed" /\ nodes' = nodes /\ edges' = edges))
       /\ (tpc[t] # "failed" /\ tpc'[t] = "failed") => (nodes' = nodes /\ edges' = edges)
       /\ (tpc[t] = "commit" /\ tpc'[t] # "commit")
            => /\ tpc'[t] = "done"
               /\ \E s \in NodesWithKey(nodes', troot[t]) :
                    \A i \in 1..Len(tids[t]) : BagIn(<<s.id, tids[t][i]>>, edges')]_vars

\* C35: a verification job for an artifact whose clone, manifest check and
\* proof build all succeed, and whose container ran to its end, is reported
\* with exit code 0, written to the status store as 'success' and called
\* back with a proof flag of valid.
C35_PayloadAgreed ==
  \A j \in Jobs :
    (/\ kind[j] = "verification"
     /\ artifact.clones /\ artifact.deps_valid /\ artifact.builds
     /\ waited[j] = "ok")
      => /\ reported[j] = 0
         /\ written[j] \in {"none", "success"}
         /\ cbFlag[j] \in {"none", "true"}

\* The PDF the pdf-service holds for the artifact of the jobs
StoredPdf == pfiles[get_pdf_path(RepoUrl, CommitHash)]

\* C36: a compilation job whose container ran to its end exits 0 exactly when
\* the document compiled and the pdf-service holds the compiled PDF, whether
\* or not a PDF of the artifact existed before the job; a job whose document
\* compiled has the PDF stored.
C36_ExitZeroIffStored ==
  \A j \in Jobs :
    (kind[j] = "latex" /\ waited[j] = "ok")
      => /\ reported[j] = 0
            <=> (artifact.clones /\ artifact.compiles /\ StoredPdf = File(artifact.pdf))
         /\ (artifact.clones /\ artifact.compiles) => StoredPdf = File(artifact.pdf)

\* C37: the worker attempts the graph callback on every path on which it has
\* determined the outcome of the job: when it goes on to remove the
\* container, the callback has been sent, also when writing the terminal
\* status to the status store raised.
C37_CallbackAlwaysAttempted ==
  \A j \in Jobs : wpc[j] = "remove" => cbCount[j] >= 1

\* C38: a POST /run answered 500 'Failed to queue task' enqueued no job: its
\* task is not in the queue, no worker executes it, and it causes no write
\* to the status store and no graph callback.
C38_FailedSubmissionNotRun ==
  \A j \in Jobs :
    hpc[j] = "error500"
      => /\ j \notin queue
         /\ wpc[j] = "idle"
         /\ written[j] = "none"
         /\ cbCount[j] = 0

\* C39: an index job that ends 'failed' has written nothing to the graph:
\* neither the node of its project, nor a dependency node, nor an edge, also
\* when a graph write fails part-way through the loop over the dependencies.
C39_FailedJobWroteNothing ==
  \A j \in IJobs : ipc[j] = "failed" => ~iwrote[j]

====
